---- MODULE Spec2Model ----
(***************************************************************************)
(* Webhook event-processing pipeline of stripe-checkout-app.               *)
(*                                                                         *)
(* The repository carries three revisions of the Stripe webhook handler:   *)
(*   "first"   src/api/stripe-webhook.js   lines  59-254                   *)
(*   "graphql" src/api/stripe-webhook.js   lines 436-697                   *)
(*   "rest"    src/api/lib/loop.js         lines 583-846                   *)
(* The variable `version` says which revision is deployed.  One request is *)
(* handled at a time except in ConcurrentSpec; every await is one step.    *)
(*                                                                         *)
(* The subscription sync adapter, src/api/lib/loop.js lines 1-195 and      *)
(* 197-370, is modelled by the operators createSubscription and            *)
(* cancelSubscription; LoopSpec calls them with every argument combination,*)
(* Spec calls them from the handler.                                       *)
(* TrialSpec feeds the handler the events of one subscription bought with  *)
(* a trial.                                                                *)
(* TimeoutSpec lets the platform cut an invocation off at an await and    *)
(* delivers the checkout event again; ConcurrentSpec interleaves two       *)
(* invocations at their awaits; UnitSpec runs the plan resolution, the     *)
(* amount formatting and the session-creation endpoint                     *)
(* (src/api/create-checkout-session.js) on bounded inputs.                 *)
(***************************************************************************)
EXTENDS Integers, Sequences, FiniteSets, TLC

\* Number of webhook deliveries in one behaviour.
MaxDeliveries == 2

\* Largest amount, in the smallest currency unit, formatted on its own.
MaxAmount == 1100

Versions == {"first", "graphql", "rest"}

\* JavaScript undefined for a string-valued slot (an unset environment variable).
Undefined == "<undefined>"

\* JavaScript truthiness of a string-valued slot.
Truthy(v) == v # Undefined /\ v # ""

\* Strings whose characters are inspected by the code (parseInt) are
\* sequences of one-character strings; <<>> is the empty or missing string.
Digits == {"0", "1", "2", "3", "4", "5", "6", "7", "8", "9"}

DigitVal(c) ==
  CASE c = "0" -> 0 [] c = "1" -> 1 [] c = "2" -> 2 [] c = "3" -> 3
    [] c = "4" -> 4 [] c = "5" -> 5 [] c = "6" -> 6 [] c = "7" -> 7
    [] c = "8" -> 8 [] c = "9" -> 9

RECURSIVE DigitPrefix(_)
DigitPrefix(s) ==
  IF s = <<>> \/ Head(s) \notin Digits THEN <<>>
  ELSE <<Head(s)>> \o DigitPrefix(Tail(s))

RECURSIVE DigitsValue(_, _)
DigitsValue(s, acc) ==
  IF s = <<>> THEN acc ELSE DigitsValue(Tail(s), acc * 10 + DigitVal(Head(s)))

\* parseInt(s, 10): the value of the leading decimal digits, NaN when there
\* are none.  The result is <<n>> for a number and <<>> for NaN.
parseInt(s) ==
  LET p == DigitPrefix(s) IN IF p = <<>> THEN <<>> ELSE <<DigitsValue(p, 0)>>

\* Variant: the cents are written without a leading zero.
TwoDigitsUnpadded(n) == ToString(n)

\* (cents / 100).toFixed(2) for an integer number of cents.
TwoDigits(n) == IF n < 10 THEN "0" \o ToString(n) ELSE ToString(n)

toFixed2(cents) ==
  IF cents < 0
    THEN "-" \o ToString((0 - cents) \div 100) \o "." \o TwoDigits((0 - cents) % 100)
    ELSE ToString(cents \div 100) \o "." \o TwoDigits(cents % 100)

\* An optional number is <<>> (null / undefined) or <<n>>.
IsNull(a) == a = <<>>

(***************************************************************************)
(* Event types delivered by the payment processor.                         *)
(***************************************************************************)
CheckoutCompleted == "checkout.session.completed"
InvoicePaid == "invoice.paid"
SubscriptionDeleted == "customer.subscription.deleted"
SubscriptionUpdated == "customer.subscription.updated"

RecognizedTypes ==
  {CheckoutCompleted, InvoicePaid, SubscriptionDeleted, SubscriptionUpdated}

EventTypes == RecognizedTypes \cup {"payment_intent.succeeded", "charge.refunded"}

(***************************************************************************)
(* Line items.  A line item built by the handler is a record               *)
(*   [variant_id, title, price]                                            *)
(* where variant_id = <<>>, title = "" and price = "" mean that the key is *)
(* not present in the object; quantity is 1 in every line the code builds. *)
(***************************************************************************)
VariantLine(v, price) == [variant_id |-> v, title |-> "", price |-> price]
CustomLine(title, price) == [variant_id |-> <<>>, title |-> title, price |-> price]

LINE_TITLES ==
  [yearly_trial  |-> "Platinum Membership Yearly - Free Trial",
   monthly_trial |-> "Platinum Membership Monthly - Free Trial",
   yearly_paid   |-> "Platinum Membership Yearly",
   monthly_paid  |-> "Platinum Membership Monthly (after trial)"]

\* buildLineItems of the first revision.
buildLineItemsFirst(plan, amountFormatted, variantYearly, variantMonthly) ==
  IF plan = "yearly" /\ variantYearly # <<>>
    THEN <<VariantLine(parseInt(variantYearly), amountFormatted)>>
  ELSE IF plan = "monthly" /\ variantMonthly # <<>>
    THEN <<VariantLine(parseInt(variantMonthly), amountFormatted)>>
  ELSE <<CustomLine(IF plan = "yearly" THEN "Platinum Membership - Yearly"
                                       ELSE "Platinum Membership - Monthly",
                    amountFormatted)>>

\* buildLineItems of the GraphQL revision: the metadata variant is ignored.
buildLineItemsGraphql(plan, amountFormatted, metadataVariantId) ==
  LET isTrial == amountFormatted = "0.00"
      title == IF plan = "yearly"
                 THEN (IF isTrial THEN LINE_TITLES.yearly_trial ELSE LINE_TITLES.yearly_paid)
                 ELSE (IF isTrial THEN LINE_TITLES.monthly_trial ELSE LINE_TITLES.monthly_paid)
  IN <<CustomLine(title, amountFormatted)>>

\* buildLineItems of the REST revision.
buildLineItemsRest(plan, amountFormatted, metadataVariantId, variantYearly, variantMonthly) ==
  LET variantIdNum == IF metadataVariantId # <<>> THEN parseInt(metadataVariantId) ELSE <<>>
      isTrial == amountFormatted = "0.00"
      title == IF plan = "yearly" THEN "Platinum Membership - Yearly"
                                  ELSE "Platinum Membership - Monthly"
  IN IF metadataVariantId # <<>> /\ variantIdNum # <<>>
       THEN <<VariantLine(variantIdNum, "")>>
     ELSE IF isTrial
       THEN <<CustomLine(title, "0.00")>>
     ELSE IF plan = "yearly" /\ variantYearly # <<>>
       THEN <<VariantLine(parseInt(variantYearly), "")>>
     ELSE IF plan = "monthly" /\ variantMonthly # <<>>
       THEN <<VariantLine(parseInt(variantMonthly), "")>>
     ELSE <<CustomLine(title, amountFormatted)>>

buildLineItems(ver, plan, amountFormatted, metadataVariantId, variantYearly, variantMonthly) ==
  CASE ver = "first" ->
         buildLineItemsFirst(plan, amountFormatted, variantYearly, variantMonthly)
    [] ver = "graphql" ->
         buildLineItemsGraphql(plan, amountFormatted, metadataVariantId)
    [] ver = "rest" ->
         buildLineItemsRest(plan, amountFormatted, metadataVariantId,
                            variantYearly, variantMonthly)

(***************************************************************************)
(* What goes on the wire for one line item.  The first and REST revisions  *)
(* serialise the object as built; the GraphQL revision maps it to a        *)
(* DraftOrderLineItemInput: a variant line always gets a priceOverride     *)
(* (String(item.price)), a custom line defaults its title to               *)
(* 'Subscription'.                                                         *)
(*   [variantRef, title, price]; price = "" means no price is sent.        *)
(***************************************************************************)
StringOfPrice(price) == IF price = "" THEN "undefined" ELSE price

WireLine(ver, item) ==
  IF ver = "graphql"
    THEN IF item.variant_id # <<>>
           THEN [variantRef |-> item.variant_id, title |-> "",
                 price |-> StringOfPrice(item.price)]
           ELSE [variantRef |-> <<>>,
                 title |-> IF item.title = "" THEN "Subscription" ELSE item.title,
                 price |-> StringOfPrice(item.price)]
    ELSE [variantRef |-> item.variant_id, title |-> item.title, price |-> item.price]

WireLineItems(ver, items) == [i \in DOMAIN items |-> WireLine(ver, items[i])]

RECURSIVE Join(_)
Join(s) == IF s = <<>> THEN "" ELSE Head(s) \o Join(Tail(s))

(***************************************************************************)
(* Environment (process.env), read by the handler at the start of a        *)
(* request.  Variant ids are character sequences; <<>> is unset.           *)
(***************************************************************************)
STRIPE_PRICE_YEARLY == "price_yearly"
STRIPE_PRICE_MONTHLY == "price_monthly"

Environments ==
  [STRIPE_SECRET_KEY : {Undefined, "sk_live"},
   STRIPE_WEBHOOK_SECRET : {Undefined, "whsec"},
   SHOPIFY_SHOP_DOMAIN : {Undefined, "", "shop.myshopify.com"},
   SHOPIFY_ACCESS_TOKEN : {Undefined, "shpat"},
   SHOPIFY_VARIANT_YEARLY : {<<>>, <<"1", "1">>},
   SHOPIFY_VARIANT_MONTHLY : {<<>>, <<"2", "2">>},
   LOOP_SYNC_ENABLED : {Undefined, "true"}]

\* Variant: any non-empty value of the flag turns the sync on.
isEnabledTruthy(e) == Truthy(e.LOOP_SYNC_ENABLED)

\* loop.isEnabled()
isEnabled(e) == e.LOOP_SYNC_ENABLED = "true" \/ e.LOOP_SYNC_ENABLED = "1"

\* Variant: only the API key is looked at.
StripeConfiguredKeyOnly(e) == Truthy(e.STRIPE_SECRET_KEY)

StripeConfigured(e) == Truthy(e.STRIPE_SECRET_KEY) /\ Truthy(e.STRIPE_WEBHOOK_SECRET)

ShopConfigured(e) == Truthy(e.SHOPIFY_SHOP_DOMAIN) /\ Truthy(e.SHOPIFY_ACCESS_TOKEN)

(***************************************************************************)
(* JavaScript values that the code tests for their type: undefined, a      *)
(* string (a sequence of one-character strings) or a number (its digits).  *)
(***************************************************************************)
JsUndefined == [type |-> "undefined", chars |-> <<>>]
JsString(s) == [type |-> "string", chars |-> s]
JsNumber(digits) == [type |-> "number", chars |-> digits]

Whitespace == {" ", "\t", "\n"}

RECURSIVE trimStart(_)
trimStart(s) ==
  IF s # <<>> /\ Head(s) \in Whitespace THEN trimStart(Tail(s)) ELSE s

RECURSIVE trimEnd(_)
trimEnd(s) ==
  IF s # <<>> /\ s[Len(s)] \in Whitespace THEN trimEnd(SubSeq(s, 1, Len(s) - 1)) ELSE s

\* String.prototype.trim
trim(s) == trimEnd(trimStart(s))

(***************************************************************************)
(* Objects returned by the payment processor.                              *)
(***************************************************************************)
SessionId == "cs_1"
InvoiceId == "in_1"
SubscriptionId == "sub_1"

MetadataVariantIds == {<<>>, <<"3", "3">>, <<"a", "b">>}

\* Variant: a key is listed twice.
utmKeysRepeated ==
  <<"utm_source", "utm_medium", "utm_campaign", "utm_term", "utm_source", "utm_id">>

\* Marketing attribution in the session metadata: the six keys the handler
\* reads; the metadata may hold others (utm_referrer).
utmKeys == <<"utm_source", "utm_medium", "utm_campaign", "utm_term", "utm_content", "utm_id">>

MetadataKeys == {utmKeys[i] : i \in DOMAIN utmKeys} \cup {"utm_referrer"}

NoUtm == [k \in MetadataKeys |-> JsUndefined]

UtmMetadatas ==
  {NoUtm,
   [NoUtm EXCEPT !["utm_source"] = JsString(<<"g">>)],
   [NoUtm EXCEPT !["utm_source"] = JsString(<<" ", "g", " ", "o", "\t">>),
                 !["utm_campaign"] = JsString(<<" ", " ">>),
                 !["utm_referrer"] = JsString(<<"r">>)],
   [NoUtm EXCEPT !["utm_medium"] = JsString(<<>>),
                 !["utm_id"] = JsString(<<"7", " ">>)],
   [k \in MetadataKeys |-> JsString(<<"x">>)]}

\* stripe.checkout.sessions.retrieve.  The metadata is a free-form string map
\* of the processor: plan is absent (""), one of the two plans, or another
\* string.
Sessions ==
  [plan : {"", "yearly", "monthly", "lifetime"},
   amount_total : {<<>>, <<0>>, <<9999>>},
   variant_id : MetadataVariantIds,
   product_id : {"", "prod_1"},
   customer_email : {"", "a@example.com"},
   customer_details_email : {""},
   utm : {NoUtm}]
  \cup
  [plan : {"monthly"},
   amount_total : {<<0>>, <<5>>},
   variant_id : {<<>>},
   product_id : {""},
   customer_email : {""},
   customer_details_email : {"b@example.com"},
   utm : {NoUtm}]
  \cup
  [plan : {"yearly"},
   amount_total : {<<9999>>},
   variant_id : {<<>>, <<"3", "3">>},
   product_id : {""},
   customer_email : {"a@example.com"},
   customer_details_email : {""},
   utm : UtmMetadatas]

\* stripe.subscriptions.retrieve, or invoice.subscription when expanded.
\* price_id is subscription.items.data[0].price.id.
Subscriptions ==
  [plan : {"yearly", "monthly"},
   price_id : {""},
   product_id : {"", "prod_1"},
   variant_id : {<<>>, <<"3", "3">>}]
  \cup
  [plan : {""},
   price_id : {"", STRIPE_PRICE_YEARLY, STRIPE_PRICE_MONTHLY, "price_other"},
   product_id : {""},
   variant_id : {<<>>, <<"3", "3">>}]
  \cup
  [plan : {"lifetime"}, price_id : {""}, product_id : {""}, variant_id : {<<>>}]

\* stripe.invoices.retrieve.  subscription is "" (none), "id" (a string id)
\* or "object" (expanded).
Invoices ==
  [subscription : {"", "id", "object"},
   amount_paid : {<<>>, <<0>>, <<0 - 500>>, <<9999>>},
   billing_reason : {"", "subscription_cycle", "subscription_create", "manual"},
   customer_email : {"", "a@example.com"}]

billingReasons == {"subscription_cycle", "subscription_create"}

\* The events the processor sends for one subscription bought with a trial:
\* the checkout session of amount 0, the first invoice (subscription_create,
\* amount 0) and a later invoice of a renewal with a positive amount.
TrialEvents == {"trial_checkout", "trial_invoice", "cycle_invoice"}

TrialSessions == {s \in Sessions : s.amount_total = <<0>>}

\* The sessions of two checkouts handled at once: a yearly trial with no ids
\* in its metadata, with or without the purchaser's email.
ConcurrentSessions ==
  {s \in TrialSessions : /\ s.plan = "yearly" /\ s.variant_id = <<>>
                         /\ s.product_id = "" /\ s.utm = NoUtm}

TrialInvoices ==
  {i \in Invoices : /\ i.subscription # "" /\ i.amount_paid = <<0>>
                    /\ i.billing_reason = "subscription_create"}

CycleInvoices ==
  {i \in Invoices : /\ i.subscription # "" /\ i.amount_paid = <<9999>>
                    /\ i.billing_reason = "subscription_cycle"}

\* What the retrieve calls of the current request can return: anything when
\* the deliveries are arbitrary, the object of the event delivered last when
\* they are the events of the trial subscription.
SessionsFor(st) ==
  IF st = <<>> THEN Sessions
  ELSE IF st[Len(st)] = "concurrent_checkout" THEN ConcurrentSessions
  ELSE TrialSessions

InvoicesFor(st) ==
  IF st = <<>> THEN Invoices
  ELSE IF st[Len(st)] = "trial_invoice" THEN TrialInvoices
  ELSE CycleInvoices

\* The three early returns of the invoice.paid branch (all revisions).
InvoiceSkipped(inv) ==
  \/ inv.subscription = ""
  \/ IsNull(inv.amount_paid) \/ inv.amount_paid[1] <= 0
  \/ (inv.billing_reason # "" /\ inv.billing_reason \notin billingReasons)

(***************************************************************************)
(* Payload construction.                                                   *)
(***************************************************************************)
Attr(n, v) == [name |-> n, value |-> v]

\* Variant: every attribution value that is present is passed on as it is.
RECURSIVE utmAttributesUntrimmed(_, _)
utmAttributesUntrimmed(metadata, keys) ==
  IF keys = <<>> THEN <<>>
  ELSE LET val == metadata[Head(keys)]
       IN (IF val.type = "string" THEN <<Attr(Head(keys), Join(val.chars))>> ELSE <<>>)
          \o utmAttributesUntrimmed(metadata, Tail(keys))

\* The utm object and the note attributes pushed for it, in the order of keys:
\* if (typeof val === 'string' && val.trim()) utm[key] = val.trim().
RECURSIVE utmAttributes(_, _)
utmAttributes(metadata, keys) ==
  IF keys = <<>> THEN <<>>
  ELSE LET val == metadata[Head(keys)]
       IN (IF val.type = "string" /\ trim(val.chars) # <<>>
             THEN <<Attr(Head(keys), Join(trim(val.chars)))>> ELSE <<>>)
          \o utmAttributes(metadata, Tail(keys))

NoPayload == [line_items |-> <<>>, email |-> "", note_attributes |-> <<>>]

\* Locals of the purchase branches; metadataVariantId is the variant_id found in
\* the session or subscription metadata, whether or not the revision reads it,
\* metadataPlan the plan found there ("" = none).
NoLocals ==
  [plan |-> "", email |-> "", amountFormatted |-> "", metadataVariantId |-> <<>>,
   metadataPlan |-> "", metadataUtm |-> NoUtm]

\* The third argument of buildLineItems: the first revision has no such
\* parameter, the REST revision passes none on the invoice.paid branch.
VariantArg(ver, type, metadataVariantId) ==
  IF ver = "first" \/ (ver = "rest" /\ type = "invoice.paid") THEN <<>>
  ELSE metadataVariantId

\* checkout.session.completed: locals computed from the retrieved session.
CheckoutLocals(ver, session) ==
  LET amountTotal == IF ~IsNull(session.amount_total) THEN session.amount_total[1] ELSE 0
  IN [plan |-> IF session.plan # "" THEN session.plan ELSE "yearly",
      email |-> IF session.customer_email # "" THEN session.customer_email
                ELSE session.customer_details_email,
      amountFormatted |-> toFixed2(amountTotal),
      metadataVariantId |-> session.variant_id,
      metadataPlan |-> session.plan,
      metadataUtm |-> session.utm]

CheckoutPayload(ver, e, session) ==
  LET l == CheckoutLocals(ver, session)
      productId == IF ver = "first" THEN "" ELSE session.product_id
      variantIdMeta == IF ver = "first" THEN <<>> ELSE session.variant_id
  IN [line_items |-> buildLineItems(ver, l.plan, l.amountFormatted,
                                    VariantArg(ver, "checkout.session.completed",
                                               l.metadataVariantId),
                                    e.SHOPIFY_VARIANT_YEARLY, e.SHOPIFY_VARIANT_MONTHLY),
      email |-> l.email,
      note_attributes |->
        <<Attr("stripe_session_id", SessionId), Attr("plan", l.plan)>>
        \o (IF productId # "" THEN <<Attr("product_id", productId)>> ELSE <<>>)
        \o (IF variantIdMeta # <<>> THEN <<Attr("variant_id", Join(variantIdMeta))>> ELSE <<>>)
        \o utmAttributes(session.utm, utmKeys)]

\* Variant: the price of the first item decides before the metadata plan.
resolvePlanPriceFirst(metadataPlan, priceId, priceYearly, priceMonthly) ==
  IF priceId # ""
    THEN (IF priceId = priceYearly THEN "yearly"
          ELSE IF priceId = priceMonthly THEN "monthly"
          ELSE "yearly")
  ELSE IF metadataPlan = "" THEN "yearly" ELSE metadataPlan

\* invoice.paid: plan resolution from subscription.metadata.plan and
\* subscription.items.data[0].price.id ("" = absent), priceYearly and
\* priceMonthly being process.env.STRIPE_PRICE_YEARLY / _MONTHLY.
resolvePlan(metadataPlan, priceId, priceYearly, priceMonthly) ==
  LET p1 == IF metadataPlan = "" /\ priceId # ""
              THEN (IF priceId = priceYearly THEN "yearly"
                    ELSE IF priceId = priceMonthly THEN "monthly"
                    ELSE "yearly")
              ELSE metadataPlan
  IN IF p1 = "" THEN "yearly" ELSE p1

InvoicePlan(sub) ==
  resolvePlan(sub.plan, sub.price_id, STRIPE_PRICE_YEARLY, STRIPE_PRICE_MONTHLY)

InvoiceLocals(ver, inv, sub) ==
  [plan |-> InvoicePlan(sub),
   email |-> inv.customer_email,
   amountFormatted |-> toFixed2(IF IsNull(inv.amount_paid) THEN 0 ELSE inv.amount_paid[1]),
   metadataVariantId |-> sub.variant_id,
   metadataPlan |-> sub.plan,
   metadataUtm |-> NoUtm]

\* The GraphQL revision declares `const note` and then appends to it when the
\* subscription metadata carries product_id or variant_id: a TypeError.
InvoiceNoteThrows(ver, sub) ==
  ver = "graphql" /\ (sub.product_id # "" \/ sub.variant_id # <<>>)

InvoicePayload(ver, e, inv, sub) ==
  LET l == InvoiceLocals(ver, inv, sub)
  IN [line_items |-> buildLineItems(ver, l.plan, l.amountFormatted,
                                    VariantArg(ver, "invoice.paid", l.metadataVariantId),
                                    e.SHOPIFY_VARIANT_YEARLY, e.SHOPIFY_VARIANT_MONTHLY),
      email |-> l.email,
      note_attributes |->
        <<Attr("stripe_invoice_id", InvoiceId),
          Attr("stripe_subscription_id", SubscriptionId),
          Attr("plan", l.plan),
          Attr("order_type", "recurring")>>
        \o (IF ver = "graphql" /\ sub.product_id # ""
              THEN <<Attr("product_id", sub.product_id)>> ELSE <<>>)
        \o (IF ver = "graphql" /\ sub.variant_id # <<>>
              THEN <<Attr("variant_id", Join(sub.variant_id))>> ELSE <<>>)]

(***************************************************************************)
(* Signature verification.  The signature header is absent (Undefined),    *)
(* the signature of the body under some secret, or garbage.                *)
(***************************************************************************)
SignatureOf(secret) == "v1=" \o secret

SignatureHeaders == {Undefined, SignatureOf("whsec"), "v1=forged"}

\* Variant: any signature header is taken as proof, only its absence is refused.
constructEventAnyHeader(sig, webhookSecret) == sig # Undefined

\* stripe.webhooks.constructEvent(rawBody, sig, webhookSecret) succeeds.
constructEvent(sig, webhookSecret) == sig = SignatureOf(webhookSecret)

(***************************************************************************)
(* Order writer: createShopifyDraftOrderAndComplete.  The commerce backend *)
(* answers each of the two calls with one of these outcomes.               *)
(***************************************************************************)
CreateOutcomes(ver) ==
  {"accepted", "http_error", "no_id", "network_error"}
  \cup (IF ver = "graphql" THEN {"user_errors"} ELSE {})

CompleteOutcomes(ver) ==
  {"completed", "http_error", "network_error"}
  \cup (IF ver = "graphql" THEN {"user_errors"} ELSE {})

\* Identifiers handed out by the commerce backend: the order, and the customer
\* as named by the completed order, by the order lookup and by the email search.
OrderId == <<"9", "1">>
CustomerIdOfOrder == <<"7", "1">>
CustomerIdFromOrder == <<"7", "2">>
CustomerIdByEmail == <<"7", "3">>

\* What the complete response echoes back.
CompleteReplies == [order : BOOLEAN, customer : BOOLEAN]

\* orderId and customerId are strings of digits, <<>> when undefined.
OrderResult(ok, orderId, customerId, error) ==
  [ok |-> ok, orderId |-> orderId, customerId |-> customerId, error |-> error]

\* Create phase: "complete" = go on to the complete call, "return" = return
\* `result`, "throw" = the fetch rejected and the exception leaves the function.
createPhase(ver, outcome) ==
  CASE outcome = "accepted" -> [next |-> "complete", result |-> OrderResult(TRUE, <<>>, <<>>, "")]
    [] outcome = "http_error" ->
         [next |-> "return", result |-> OrderResult(FALSE, <<>>, <<>>, "create failed")]
    [] outcome = "user_errors" ->
         [next |-> "return", result |-> OrderResult(FALSE, <<>>, <<>>, "userErrors")]
    [] outcome = "no_id" ->
         IF ver = "graphql"
           THEN [next |-> "return",
                 result |-> OrderResult(FALSE, <<>>, <<>>, "No draft order id returned")]
           ELSE [next |-> "return", result |-> OrderResult(TRUE, <<>>, <<>>, "")]
    [] outcome = "network_error" ->
         [next |-> "throw", result |-> OrderResult(FALSE, <<>>, <<>>, "")]

\* Variant: a complete call answered with a non-success status still reports
\* the ids next to the error.
completePhaseErrorWithIds(ver, outcome, reply) ==
  CASE outcome = "completed" ->
         [next |-> "return",
          result |-> IF ver = "first" THEN OrderResult(TRUE, <<>>, <<>>, "")
                     ELSE OrderResult(TRUE,
                                      IF reply.order THEN OrderId ELSE <<>>,
                                      IF reply.customer THEN CustomerIdOfOrder ELSE <<>>, "")]
    [] outcome = "http_error" ->
         [next |-> "return",
          result |-> OrderResult(ver # "graphql", OrderId, CustomerIdOfOrder, "complete failed")]
    [] outcome = "user_errors" ->
         [next |-> "return", result |-> OrderResult(FALSE, <<>>, <<>>, "userErrors")]
    [] outcome = "network_error" ->
         [next |-> "throw", result |-> OrderResult(FALSE, <<>>, <<>>, "")]

\* Complete phase.
completePhase(ver, outcome, reply) ==
  CASE outcome = "completed" ->
         [next |-> "return",
          result |-> IF ver = "first" THEN OrderResult(TRUE, <<>>, <<>>, "")
                     ELSE OrderResult(TRUE,
                                      IF reply.order THEN OrderId ELSE <<>>,
                                      IF reply.customer THEN CustomerIdOfOrder ELSE <<>>, "")]
    [] outcome = "http_error" ->
         IF ver = "graphql"
           THEN [next |-> "return", result |-> OrderResult(FALSE, <<>>, <<>>, "complete failed")]
           ELSE [next |-> "return", result |-> OrderResult(TRUE, <<>>, <<>>, "")]
    [] outcome = "user_errors" ->
         [next |-> "return", result |-> OrderResult(FALSE, <<>>, <<>>, "userErrors")]
    [] outcome = "network_error" ->
         [next |-> "throw", result |-> OrderResult(FALSE, <<>>, <<>>, "")]

\* Status the handler answers with after the order write returned `result`
\* or threw (the try/catch around the call).
orderWriteStatus(next, result) ==
  IF next = "throw" THEN 500 ELSE IF ~result.ok THEN 500 ELSE 200

\* Variant: a subscription that is past due counts as cancelled too.
isCanceledOrPastDue(status) ==
  status \in {"canceled", "cancelled", "unpaid", "incomplete_expired", "past_due"}

\* customer.subscription.updated statuses that count as a cancellation.
isCanceled(status) ==
  status \in {"canceled", "cancelled", "unpaid", "incomplete_expired"}

SubscriptionStatuses ==
  {"active", "past_due", "canceled", "cancelled", "unpaid", "incomplete_expired"}

(***************************************************************************)
(* Subscription sync adapter (lib/loop.js).                                *)
(***************************************************************************)
\* Number(s) for a string of the model: 0 for a blank string, the value of an
\* all-digit string, NaN (<<>>) otherwise.
NumberOfString(s) ==
  LET t == trim(s)
  IN IF t = <<>> THEN <<0>>
     ELSE IF \A i \in DOMAIN t : t[i] \in Digits THEN <<DigitsValue(t, 0)>>
     ELSE <<>>

\* Number(v)
NumberOf(v) ==
  CASE v.type = "undefined" -> <<>>
    [] v.type = "string" -> NumberOfString(v.chars)
    [] v.type = "number" -> <<DigitsValue(v.chars, 0)>>

\* !v is false
JsTruthy(v) ==
  CASE v.type = "undefined" -> FALSE
    [] v.type = "string" -> v.chars # <<>>
    [] v.type = "number" -> DigitsValue(v.chars, 0) # 0

\* !email || typeof email !== 'string' || !email.trim()
NoEmail(email) ==
  ~JsTruthy(email) \/ email.type # "string" \/ trim(email.chars) = <<>>

\* parseFloat(s) for the prices of the model (no fraction part): the value of
\* the digits that follow the leading white space, NaN when there are none.
parseFloat(s) == parseInt(trimStart(s))

\* The two revisions of lib/loop.js: "cents" (lines 1-195) reads the delivery
\* price with parseFloat and checks the selling plan id to be numeric,
\* "numeric" (lines 197-370) reads it with Number.
LoopRevisions == {"cents", "numeric"}

\* The adapter's own settings, read from process.env inside each call.
\* <<>> is unset.
LoopConfigs ==
  [revision : LoopRevisions,
   LOOP_API_TOKEN : {<<>>, <<"t">>},
   LOOP_SELLING_PLAN_ID : {<<>>, <<"7">>, <<"p">>},
   LOOP_VARIANT_ID : {<<>>, <<"8">>, <<"v">>},
   LOOP_DELIVERY_PRICE : {<<>>, <<"5">>, <<"5", "x">>, <<"x">>}]

LoopResult(ok, error) == [ok |-> ok, error |-> error]

\* process.env.LOOP_DELIVERY_PRICE is not a number for this revision.
InvalidDeliveryPrice(cfg) ==
  LET text == IF cfg.LOOP_DELIVERY_PRICE = <<>> THEN <<"0">> ELSE cfg.LOOP_DELIVERY_PRICE
  IN IF cfg.revision = "cents" THEN parseFloat(text) = <<>>
     ELSE NumberOfString(text) = <<>>

\* Number.isNaN of one of the ids sent to the sync API.
InvalidId(cfg, shopifyCustomerId, originOrderShopifyId) ==
  \/ NumberOf(shopifyCustomerId) = <<>>
  \/ NumberOfString(cfg.LOOP_VARIANT_ID) = <<>>
  \/ NumberOf(originOrderShopifyId) = <<>>
  \/ (cfg.revision = "cents" /\ NumberOfString(cfg.LOOP_SELLING_PLAN_ID) = <<>>)

\* Variant: the customer id is not looked at before the ids are converted.
createSubscriptionChecksNoCustomerId(enabled, cfg, email, shopifyCustomerId, originOrderShopifyId) ==
  IF ~enabled THEN <<LoopResult(TRUE, "")>>
  ELSE IF NoEmail(email) THEN <<LoopResult(FALSE, "No email")>>
  ELSE IF ~JsTruthy(originOrderShopifyId) THEN <<LoopResult(FALSE, "No origin order ID")>>
  ELSE IF cfg.LOOP_API_TOKEN = <<>> THEN <<LoopResult(FALSE, "No token")>>
  ELSE IF cfg.LOOP_SELLING_PLAN_ID = <<>> THEN <<LoopResult(FALSE, "No selling plan ID")>>
  ELSE IF cfg.LOOP_VARIANT_ID = <<>> THEN <<LoopResult(FALSE, "No variant ID")>>
  ELSE IF InvalidDeliveryPrice(cfg) THEN <<LoopResult(FALSE, "Invalid LOOP_DELIVERY_PRICE")>>
  ELSE IF InvalidId(cfg, shopifyCustomerId, originOrderShopifyId)
    THEN <<LoopResult(FALSE, "Invalid ID")>>
  ELSE <<>>

\* createSubscription up to its fetch: <<result>> when it returns before any
\* network call, <<>> when it goes on to POST /subscription.
createSubscriptionChecks(enabled, cfg, email, shopifyCustomerId, originOrderShopifyId) ==
  IF ~enabled THEN <<LoopResult(TRUE, "")>>
  ELSE IF NoEmail(email) THEN <<LoopResult(FALSE, "No email")>>
  ELSE IF ~JsTruthy(shopifyCustomerId) THEN <<LoopResult(FALSE, "No Shopify customer ID")>>
  ELSE IF ~JsTruthy(originOrderShopifyId) THEN <<LoopResult(FALSE, "No origin order ID")>>
  ELSE IF cfg.LOOP_API_TOKEN = <<>> THEN <<LoopResult(FALSE, "No token")>>
  ELSE IF cfg.LOOP_SELLING_PLAN_ID = <<>> THEN <<LoopResult(FALSE, "No selling plan ID")>>
  ELSE IF cfg.LOOP_VARIANT_ID = <<>> THEN <<LoopResult(FALSE, "No variant ID")>>
  ELSE IF InvalidDeliveryPrice(cfg) THEN <<LoopResult(FALSE, "Invalid LOOP_DELIVERY_PRICE")>>
  ELSE IF InvalidId(cfg, shopifyCustomerId, originOrderShopifyId)
    THEN <<LoopResult(FALSE, "Invalid ID")>>
  ELSE <<>>

\* How one fetch of the adapter ends: a 2xx response, another status, or a
\* rejected promise.
FetchOutcomes == {"ok", "http_error", "network_error"}

\* What createSubscription returns after POST /subscription ended with `outcome`.

createSubscriptionAfterPost(outcome) ==
  CASE outcome = "ok" -> LoopResult(TRUE, "")
    [] outcome = "http_error" -> LoopResult(FALSE, "response text")
    [] outcome = "network_error" -> LoopResult(FALSE, "err.message")

\* cancelSubscription up to its first fetch.
cancelSubscriptionChecks(enabled, cfg, email) ==
  IF ~enabled THEN <<LoopResult(TRUE, "")>>
  ELSE IF NoEmail(email) THEN <<LoopResult(FALSE, "No email")>>
  ELSE IF cfg.LOOP_API_TOKEN = <<>> THEN <<LoopResult(FALSE, "No token")>>
  ELSE <<>>

\* The customer lookup response.  Each of the three places the code looks at
\* is absent (<<"absent">>), an array of entries (<<"array", entries>>) or a
\* single entry (<<"single", entry>>); an entry is an object with an id or a
\* bare value, "" standing for a missing or falsy one.
MaxSubscriptionIds == 2

SubscriptionEntries == [kind : {"object", "scalar"}, id : {"", "ls_1", "ls_2"}]

RECURSIVE SeqsUpTo(_, _)
SeqsUpTo(S, n) ==
  IF n = 0 THEN {<<>>}
  ELSE LET shorter == SeqsUpTo(S, n - 1)
       IN shorter \cup {Append(q, x) : q \in {r \in shorter : Len(r) = n - 1}, x \in S}

Absent == <<"absent">>

RawSubscriptions ==
  {Absent}
  \cup {<<"array", a>> : a \in SeqsUpTo(SubscriptionEntries, MaxSubscriptionIds)}
  \cup {<<"single", x>> : x \in SubscriptionEntries}

CustomerDatas ==
  [subscriptions : RawSubscriptions, subscription_ids : {Absent}, data_subscriptions : {Absent}]
  \cup [subscriptions : {Absent},
        subscription_ids : {<<"array", <<[kind |-> "scalar", id |-> "ls_1"]>>>>},
        data_subscriptions : {Absent, <<"single", [kind |-> "object", id |-> "ls_2"]>>}]
  \cup [subscriptions : {Absent}, subscription_ids : {Absent},
        data_subscriptions : {<<"array", <<[kind |-> "object", id |-> "ls_2"]>>>>}]

RECURSIVE FilterIds(_)
FilterIds(list) ==
  IF list = <<>> THEN <<>>
  ELSE IF Head(list).id = "" THEN FilterIds(Tail(list))
  ELSE <<Head(list).id>> \o FilterIds(Tail(list))

\* raw = a ?? b ?? c ?? []; list = Array.isArray(raw) ? raw : [raw];
\* list.map(s => object ? s.id : s).filter(Boolean)
subscriptionIds(customerData) ==
  LET raw == IF customerData.subscriptions # Absent THEN customerData.subscriptions
             ELSE IF customerData.subscription_ids # Absent THEN customerData.subscription_ids
             ELSE IF customerData.data_subscriptions # Absent
               THEN customerData.data_subscriptions
             ELSE <<"array", <<>>>>
      list == IF raw[1] = "array" THEN raw[2] ELSE <<raw[2]>>
  IN FilterIds(list)

\* A call of the adapter: the value returned, the network calls made and the
\* subscription ids the customer lookup gave (<<>> when there was no lookup).
LoopRun(r, calls) == [result |-> r, calls |-> calls, ids |-> <<>>]

\* createSubscription(email, plan, shopifyCustomerId, originOrderShopifyId),
\* the POST ending with `outcome` when it is made.
createSubscription(enabled, cfg, email, shopifyCustomerId, originOrderShopifyId, outcome) ==
  LET early == createSubscriptionChecks(enabled, cfg, email, shopifyCustomerId,
                                        originOrderShopifyId)
  IN IF early # <<>> THEN LoopRun(early[1], <<>>)
     ELSE LoopRun(createSubscriptionAfterPost(outcome), <<"POST /subscription">>)

CancelCall(subId) == "POST /subscriptions/" \o subId \o "/cancel"

\* The for loop over subscriptionIds, outs[i] being how the i-th fetch ends: a
\* response that is not ok is logged and the loop goes on, a rejected fetch
\* leaves the loop for the catch block.
RECURSIVE cancelEach(_, _)
cancelEach(ids, outs) ==
  IF ids = <<>> THEN LoopRun(LoopResult(TRUE, ""), <<>>)
  ELSE IF Head(outs) = "network_error"
    THEN LoopRun(LoopResult(FALSE, "err.message"), <<CancelCall(Head(ids))>>)
  ELSE LET rest == cancelEach(Tail(ids), Tail(outs))
       IN LoopRun(rest.result, <<CancelCall(Head(ids))>> \o rest.calls)

\* cancelSubscription(email): `lookup` is how the customer lookup ends,
\* customerData its body, outs the outcomes of the cancel calls.
cancelSubscription(enabled, cfg, email, lookup, customerData, outs) ==
  LET early == cancelSubscriptionChecks(enabled, cfg, email)
  IN IF early # <<>> THEN LoopRun(early[1], <<>>)
     ELSE IF lookup = "http_error"
       THEN LoopRun(LoopResult(FALSE, "Customer lookup failed"), <<"GET /customers">>)
     ELSE IF lookup = "network_error"
       THEN LoopRun(LoopResult(FALSE, "err.message"), <<"GET /customers">>)
     ELSE LET run == cancelEach(subscriptionIds(customerData), outs)
          IN [LoopRun(run.result, <<"GET /customers">> \o run.calls)
                EXCEPT !.ids = subscriptionIds(customerData)]

\* Every way a call of createSubscription can go.
createSubscriptionRuns(enabled, cfg, email, shopifyCustomerId, originOrderShopifyId) ==
  {createSubscription(enabled, cfg, email, shopifyCustomerId, originOrderShopifyId, outcome) :
     outcome \in FetchOutcomes}

NoCustomerData ==
  [subscriptions |-> Absent, subscription_ids |-> Absent, data_subscriptions |-> Absent]

\* Every way a call of cancelSubscription can go.
cancelSubscriptionRuns(enabled, cfg, email) ==
  IF cancelSubscriptionChecks(enabled, cfg, email) # <<>>
    THEN {cancelSubscription(enabled, cfg, email, "ok", NoCustomerData, <<>>)}
    ELSE {cancelSubscription(enabled, cfg, email, lookup, NoCustomerData, <<>>) :
            lookup \in {"http_error", "network_error"}}
         \cup UNION {{cancelSubscription(enabled, cfg, email, "ok", customerData, outs) :
                        outs \in [1..Len(subscriptionIds(customerData)) -> FetchOutcomes]} :
                     customerData \in CustomerDatas}

(***************************************************************************)
(* State.                                                                  *)
(***************************************************************************)
VARIABLES
  version,        \* deployed revision of the handler
  env,            \* process.env
  pc,             \* position of the handler in the current request
  req,            \* the HTTP request: method, body readable, signature, event type
  verified,       \* constructEvent returned an event for this request
  event,          \* event.data.object of a subscription event: status, customer
  invoice,        \* the retrieved invoice (invoice.paid)
  loc,            \* locals: plan, email, amountFormatted, metadata variant id
  payload,        \* the draft order payload built by the handler
  sent,           \* wire line items of the draft create call, <<>> before it
  result,         \* <<>> or <<OrderResult>> of createShopifyDraftOrderAndComplete
  resp,           \* HTTP response: status 0 = none sent
  threw,          \* the handler ended with an uncaught exception
  trace,          \* the steps and outbound calls of this request, in order
  backendDrafts,  \* draft orders existing in the commerce backend
  createCalls,    \* draft create calls made over all deliveries
  deliveries,     \* webhook deliveries received
  story,          \* the events of one trial subscription delivered so far
                  \* (<<>> when the deliveries are arbitrary requests)
  cutAfterCreate, \* invocations cut off by the platform after their draft create
                  \* call had succeeded
  unitCall,       \* a computation of the application run on its own: the
                  \* function, its arguments and what it returned
  parked,         \* the context of the other invocation in flight, waiting at
                  \* an await, when two requests are handled at once
  allGood,        \* every delivery so far: all calls accepted (and, when the
                  \* deliveries are arbitrary requests, a valid checkout event)
  all200,         \* every finished delivery so far was answered 200 {received:true}
  outcomes,       \* how each external call of this request ended, "" = not made
  loopCall,       \* sync adapter: the function entered, its arguments and settings
  loopResult,     \* sync adapter: <<>> or <<the value the function returned>>
  loopCalls       \* sync adapter: the network calls made, in order

vars ==
  <<version, env, pc, req, verified, event, invoice, loc, payload, sent, result,
    resp, threw, trace, backendDrafts, createCalls, deliveries, story, cutAfterCreate, unitCall, parked, allGood, all200,
    outcomes, loopCall, loopResult, loopCalls>>

\* The adapter's own state: the webhook handler only awaits its return value.
loopVars == <<loopCall, loopResult, loopCalls>>

NoLoopCall ==
  [fn |-> "", email |-> JsUndefined, shopifyCustomerId |-> JsUndefined,
   originOrderShopifyId |-> JsUndefined, ids |-> <<>>,
   cfg |-> [revision |-> "cents", LOOP_API_TOKEN |-> <<>>, LOOP_SELLING_PLAN_ID |-> <<>>,
            LOOP_VARIANT_ID |-> <<>>, LOOP_DELIVERY_PRICE |-> <<>>]]

NoUnitCall == [fn |-> "", args |-> <<>>, out |-> <<>>]

NoResponse == [status |-> 0, received |-> FALSE, error |-> ""]
NoEvent == [status |-> "", customer |-> ""]
NoInvoice == [subscription |-> "", amount_paid |-> <<>>, billing_reason |-> "",
              customer_email |-> ""]
NoOutcomes == [session |-> "", invoice |-> "", subscription |-> "",
               create |-> "", complete |-> "", draftId |-> 0, completeId |-> 0,
               lookupOrder |-> "", lookupEmail |-> "", customer |-> ""]
NoRequest == [method |-> "", bodyOk |-> FALSE, sig |-> Undefined, type |-> ""]

Requests ==
  [method : {"POST", "GET"}, bodyOk : BOOLEAN, sig : SignatureHeaders, type : EventTypes]

StripeCalls ==
  {"stripe.sessions.retrieve", "stripe.invoices.retrieve",
   "stripe.subscriptions.retrieve", "stripe.customers.retrieve"}
ShopifyCalls ==
  {"shopify.draftOrderCreate", "shopify.draftOrderComplete",
   "shopify.orders.get", "shopify.customers.search"}
LoopCalls == {"loop.createSubscription", "loop.cancelSubscription"}
OutboundCalls == StripeCalls \cup ShopifyCalls \cup LoopCalls

Called(c) == \E i \in DOMAIN trace : trace[i] = c

\* What one invocation of the handler holds: its position and its locals.
\* The handler declares every variable inside the function.
IdleContext ==
  [pc |-> "idle", req |-> NoRequest, verified |-> FALSE, event |-> NoEvent,
   invoice |-> NoInvoice, loc |-> NoLocals, payload |-> NoPayload, sent |-> <<>>,
   result |-> <<>>, resp |-> NoResponse, threw |-> FALSE, trace |-> <<>>,
   outcomes |-> NoOutcomes, loopCall |-> NoLoopCall, loopResult |-> <<>>,
   loopCalls |-> <<>>]

Init ==
  /\ version \in Versions
  /\ env \in Environments
  /\ pc = "idle"
  /\ req = NoRequest
  /\ verified = FALSE
  /\ event = NoEvent
  /\ invoice = NoInvoice
  /\ loc = NoLocals
  /\ payload = NoPayload
  /\ sent = <<>>
  /\ result = <<>>
  /\ resp = NoResponse
  /\ threw = FALSE
  /\ trace = <<>>
  /\ backendDrafts = 0
  /\ createCalls = 0
  /\ deliveries = 0
  /\ story = <<>>
  /\ cutAfterCreate = 0
  /\ unitCall = NoUnitCall
  /\ parked = IdleContext
  /\ allGood = TRUE
  /\ all200 = TRUE
  /\ outcomes = NoOutcomes
  /\ loopCall = NoLoopCall
  /\ loopResult = <<>>
  /\ loopCalls = <<>>

\* res.status(s).json({received:true}) or res.status(s).json({error}); return.
Respond(status, error) ==
  /\ resp' = [status |-> status, received |-> (error = ""), error |-> error]
  /\ pc' = "done"
  /\ threw' = FALSE
  /\ all200' = (all200 /\ status = 200 /\ error = "")

\* An exception leaves the handler: no response is sent by it.
Throw ==
  /\ resp' = resp
  /\ pc' = "done"
  /\ threw' = TRUE
  /\ all200' = FALSE

Goto(p) ==
  /\ pc' = p
  /\ UNCHANGED <<resp, threw, all200>>

(***************************************************************************)
(* The handler, one action per step.                                       *)
(***************************************************************************)

\* A delivery arrives; the previous request's context is gone.
Arrive(r) ==
  /\ pc \in {"idle", "done"}
  /\ req' = r
  /\ deliveries' = deliveries + 1
  /\ pc' = "start"
  /\ verified' = FALSE
  /\ event' = NoEvent
  /\ invoice' = NoInvoice
  /\ loc' = NoLocals
  /\ payload' = NoPayload
  /\ sent' = <<>>
  /\ result' = <<>>
  /\ resp' = NoResponse
  /\ threw' = FALSE
  /\ trace' = <<>>
  /\ outcomes' = NoOutcomes
  /\ loopCall' = NoLoopCall
  /\ loopResult' = <<>>
  /\ loopCalls' = <<>>
  /\ UNCHANGED <<version, env, backendDrafts, createCalls, all200>>

\* A delivery of any request.
Receive(r) ==
  /\ deliveries < MaxDeliveries
  /\ Arrive(r)
  /\ allGood' = (/\ allGood
                 /\ r.method = "POST" /\ r.bodyOk
                 /\ r.type = CheckoutCompleted
                 /\ StripeConfigured(env)
                 /\ constructEvent(r.sig, env.STRIPE_WEBHOOK_SECRET)
                 /\ ShopConfigured(env))
  /\ UNCHANGED <<story, cutAfterCreate, unitCall, parked>>

\* Variant: an unsupported method is a bad request.
EntryBadRequest ==
  /\ pc = "start"
  /\ IF req.method # "POST" THEN Respond(400, "Method not allowed")
     ELSE IF ~StripeConfigured(env) THEN Respond(500, "Webhook not configured")
     ELSE Goto("readBody")
  /\ UNCHANGED <<outcomes, version, env, req, verified, event, invoice, loc, payload, sent,
                 result, trace, backendDrafts, createCalls, deliveries, story, cutAfterCreate, unitCall, parked, allGood>>
  /\ UNCHANGED loopVars

\* Method check and processor configuration check.
Entry ==
  /\ pc = "start"
  /\ IF req.method # "POST" THEN Respond(405, "Method not allowed")
     ELSE IF ~StripeConfigured(env) THEN Respond(500, "Webhook not configured")
     ELSE Goto("readBody")
  /\ UNCHANGED <<outcomes, version, env, req, verified, event, invoice, loc, payload, sent,
                 result, trace, backendDrafts, createCalls, deliveries, story, cutAfterCreate, unitCall, parked, allGood>>
  /\ UNCHANGED loopVars

\* await getRawBody(req)
ReadBody ==
  /\ pc = "readBody"
  /\ trace' = Append(trace, "getRawBody")
  /\ IF req.bodyOk THEN Goto("verify") ELSE Respond(400, "Invalid body")
  /\ UNCHANGED <<outcomes, version, env, req, verified, event, invoice, loc, payload, sent,
                 result, backendDrafts, createCalls, deliveries, story, cutAfterCreate, unitCall, parked, allGood>>
  /\ UNCHANGED loopVars

\* stripe.webhooks.constructEvent; the event object comes out of it.
VerifySignature ==
  /\ pc = "verify"
  /\ trace' = Append(trace, "constructEvent")
  /\ IF constructEvent(req.sig, env.STRIPE_WEBHOOK_SECRET)
       THEN /\ verified' = TRUE
            /\ IF req.type \in {SubscriptionDeleted, SubscriptionUpdated}
                 THEN event' \in [status : SubscriptionStatuses, customer : {"", "cus_1"}]
                 ELSE event' = NoEvent
            /\ Goto("classify")
       ELSE /\ Respond(400, "Invalid signature")
            /\ UNCHANGED <<verified, event>>
  /\ UNCHANGED <<outcomes, version, env, req, invoice, loc, payload, sent, result,
                 backendDrafts, createCalls, deliveries, story, cutAfterCreate, unitCall, parked, allGood>>
  /\ UNCHANGED loopVars

\* Variant: the shop configuration is looked at before the ignored event types.
routeShopFirst(ver, e, type, ev) ==
  IF ver # "first" /\ type \in {SubscriptionDeleted, SubscriptionUpdated}
    THEN IF /\ isEnabled(e)
            /\ (type = SubscriptionDeleted \/ isCanceled(ev.status))
            /\ ev.customer # ""
           THEN "retrieveCustomer"
           ELSE "ack"
  ELSE IF e.SHOPIFY_SHOP_DOMAIN = Undefined THEN "throw"
  ELSE IF ~ShopConfigured(e) THEN "ack"
  ELSE IF type = CheckoutCompleted THEN "retrieveSession"
  ELSE IF type = InvoicePaid THEN "retrieveInvoice"
  ELSE "ack"

\* Routing of a verified event, up to the first await of the chosen branch:
\* "ack" = respond 200 {received:true}, "throw" = shopDomain.replace on
\* undefined, otherwise the await the handler reaches next.
route(ver, e, type, ev) ==
  IF ver # "first" /\ type \in {SubscriptionDeleted, SubscriptionUpdated}
    THEN IF /\ isEnabled(e)
            /\ (type = SubscriptionDeleted \/ isCanceled(ev.status))
            /\ ev.customer # ""
           THEN "retrieveCustomer"
           ELSE "ack"
  ELSE IF type # CheckoutCompleted /\ type # InvoicePaid THEN "ack"
  ELSE IF e.SHOPIFY_SHOP_DOMAIN = Undefined THEN "throw"
  ELSE IF ~ShopConfigured(e) THEN "ack"
  ELSE IF type = CheckoutCompleted THEN "retrieveSession"
  ELSE "retrieveInvoice"

Classify ==
  /\ pc = "classify"
  /\ LET r == route(version, env, req.type, event) IN
       CASE r = "ack" -> Respond(200, "")
         [] r = "throw" -> Throw
         [] OTHER -> Goto(r)
  /\ UNCHANGED <<outcomes, version, env, req, verified, event, invoice, loc, payload, sent,
                 result, trace, backendDrafts, createCalls, deliveries, story, cutAfterCreate, unitCall, parked, allGood>>
  /\ UNCHANGED loopVars

\* await stripe.checkout.sessions.retrieve, then the payload is built.
RetrieveSession ==
  /\ pc = "retrieveSession"
  /\ trace' = Append(trace, "stripe.sessions.retrieve")
  /\ \/ /\ Respond(500, "Failed to retrieve session")
        /\ outcomes' = [outcomes EXCEPT !.session = "failed"]
        /\ allGood' = FALSE
        /\ UNCHANGED <<loc, payload>>
     \/ \E session \in SessionsFor(story) :
          /\ outcomes' = [outcomes EXCEPT !.session = "ok"]
          /\ loc' = CheckoutLocals(version, session)
          /\ payload' = CheckoutPayload(version, env, session)
          /\ Goto("createDraft")
          /\ UNCHANGED allGood
  /\ UNCHANGED <<version, env, req, verified, event, invoice, sent, result,
                 backendDrafts, createCalls, deliveries, story, cutAfterCreate, unitCall, parked>>
  /\ UNCHANGED loopVars

\* The synchronous code between the subscription being known and the order write.
BuildInvoiceOrder(inv, sub) ==
  IF InvoiceNoteThrows(version, sub)
    THEN /\ Throw
         /\ loc' = InvoiceLocals(version, inv, sub)
         /\ UNCHANGED payload
    ELSE /\ loc' = InvoiceLocals(version, inv, sub)
         /\ payload' = InvoicePayload(version, env, inv, sub)
         /\ Goto("createDraft")

\* await stripe.invoices.retrieve and the three filters.
RetrieveInvoice ==
  /\ pc = "retrieveInvoice"
  /\ trace' = Append(trace, "stripe.invoices.retrieve")
  /\ \/ /\ Respond(500, "Failed to retrieve invoice")
        /\ outcomes' = [outcomes EXCEPT !.invoice = "failed"]
        /\ allGood' = FALSE
        /\ UNCHANGED <<invoice, loc, payload>>
     \/ \E inv \in InvoicesFor(story) :
          /\ invoice' = inv
          /\ outcomes' = [outcomes EXCEPT !.invoice = "ok"]
          /\ UNCHANGED allGood
          /\ IF InvoiceSkipped(inv)
               THEN Respond(200, "") /\ UNCHANGED <<loc, payload>>
             ELSE IF inv.subscription = "object"
               THEN \E sub \in Subscriptions : BuildInvoiceOrder(inv, sub)
             ELSE Goto("retrieveSubscription") /\ UNCHANGED <<loc, payload>>
  /\ UNCHANGED <<version, env, req, verified, event, sent, result,
                 backendDrafts, createCalls, deliveries, story, cutAfterCreate, unitCall, parked>>
  /\ UNCHANGED loopVars

\* await stripe.subscriptions.retrieve: not inside any try block.
RetrieveSubscription ==
  /\ pc = "retrieveSubscription"
  /\ trace' = Append(trace, "stripe.subscriptions.retrieve")
  /\ \/ /\ Throw
        /\ outcomes' = [outcomes EXCEPT !.subscription = "failed"]
        /\ allGood' = FALSE
        /\ UNCHANGED <<loc, payload>>
     \/ /\ outcomes' = [outcomes EXCEPT !.subscription = "ok"]
        /\ UNCHANGED allGood
        /\ \E sub \in Subscriptions : BuildInvoiceOrder(invoice, sub)
  /\ UNCHANGED <<version, env, req, verified, event, invoice, sent, result,
                 backendDrafts, createCalls, deliveries, story, cutAfterCreate, unitCall, parked>>
  /\ UNCHANGED loopVars

\* Variant: the acknowledgement is sent as soon as the order is written, the
\* sync fan-out runs after it.
AfterOrderWriteAckFirst(next, res) ==
  IF next = "throw" THEN Respond(orderWriteStatus(next, res), "Shopify request failed")
  ELSE IF ~res.ok THEN Respond(orderWriteStatus(next, res), "Failed to create draft order")
  ELSE IF /\ version # "first"
          /\ req.type = CheckoutCompleted
          /\ isEnabled(env) /\ loc.email # "" /\ res.orderId # <<>>
    THEN /\ resp' = [status |-> 200, received |-> TRUE, error |-> ""]
         /\ pc' = IF res.customerId # <<>> THEN "createSubscription" ELSE "lookupByOrder"
         /\ UNCHANGED <<threw, all200>>
  ELSE Respond(orderWriteStatus(next, res), "")

\* Variant: the sync fan-out follows the order write of a recurring charge too.
AfterOrderWriteAnyEvent(next, res) ==
  IF next = "throw" THEN Respond(orderWriteStatus(next, res), "Shopify request failed")
  ELSE IF ~res.ok THEN Respond(orderWriteStatus(next, res), "Failed to create draft order")
  ELSE IF /\ version # "first"
          /\ isEnabled(env) /\ loc.email # "" /\ res.orderId # <<>>
    THEN IF res.customerId # <<>> THEN Goto("createSubscription")
         ELSE Goto("lookupByOrder")
  ELSE Respond(orderWriteStatus(next, res), "")

\* What follows the order write in the handler: the error responses, the
\* sync fan-out condition of the checkout branch, or the acknowledgement.
AfterOrderWrite(next, res) ==
  IF next = "throw" THEN Respond(orderWriteStatus(next, res), "Shopify request failed")
  ELSE IF ~res.ok THEN Respond(orderWriteStatus(next, res), "Failed to create draft order")
  ELSE IF /\ version # "first"
          /\ req.type = CheckoutCompleted
          /\ isEnabled(env) /\ loc.email # "" /\ res.orderId # <<>>
    THEN IF res.customerId # <<>> THEN Goto("createSubscription")
         ELSE Goto("lookupByOrder")
  ELSE Respond(orderWriteStatus(next, res), "")

\* The id in the create response: the backend numbers its drafts, 0 is a
\* response without an id.
DraftIdOf(outcome, drafts) == IF outcome = "accepted" THEN drafts + 1 ELSE 0

\* Variant: the handler remembers that a draft exists for the event and
\* acknowledges a redelivery without writing a second one.
DraftOrderCreateOnce ==
  /\ pc = "createDraft"
  /\ IF backendDrafts > 0
       THEN /\ Respond(200, "")
            /\ UNCHANGED <<trace, sent, createCalls, backendDrafts, outcomes, allGood, result>>
       ELSE /\ trace' = Append(trace, "shopify.draftOrderCreate")
            /\ sent' = WireLineItems(version, payload.line_items)
            /\ createCalls' = createCalls + 1
            /\ \E outcome \in CreateOutcomes(version) :
                 LET ph == createPhase(version, outcome) IN
                   /\ backendDrafts' = IF outcome = "accepted" THEN backendDrafts + 1
                                       ELSE backendDrafts
                   /\ outcomes' = [outcomes EXCEPT !.create = outcome,
                                                  !.draftId = DraftIdOf(outcome, backendDrafts)]
                   /\ allGood' = (allGood /\ outcome = "accepted")
                   /\ IF ph.next = "complete"
                        THEN Goto("completeDraft") /\ UNCHANGED result
                        ELSE /\ result' = IF ph.next = "return" THEN <<ph.result>> ELSE <<>>
                             /\ AfterOrderWrite(ph.next, ph.result)
  /\ UNCHANGED <<version, env, req, verified, event, invoice, loc, payload, deliveries, story, cutAfterCreate, unitCall, parked>>
  /\ UNCHANGED loopVars

\* The draft create call of createShopifyDraftOrderAndComplete.
DraftOrderCreate ==
  /\ pc = "createDraft"
  /\ trace' = Append(trace, "shopify.draftOrderCreate")
  /\ sent' = WireLineItems(version, payload.line_items)
  /\ createCalls' = createCalls + 1
  /\ \E outcome \in CreateOutcomes(version) :
       LET ph == createPhase(version, outcome) IN
         /\ backendDrafts' = IF outcome = "accepted" THEN backendDrafts + 1
                             ELSE backendDrafts
         /\ outcomes' = [outcomes EXCEPT !.create = outcome,
                                        !.draftId = DraftIdOf(outcome, backendDrafts)]
         /\ allGood' = (allGood /\ outcome = "accepted")
         /\ IF ph.next = "complete"
              THEN Goto("completeDraft") /\ UNCHANGED result
              ELSE /\ result' = IF ph.next = "return" THEN <<ph.result>> ELSE <<>>
                   /\ AfterOrderWrite(ph.next, ph.result)
  /\ UNCHANGED <<version, env, req, verified, event, invoice, loc, payload, deliveries, story, cutAfterCreate, unitCall, parked>>
  /\ UNCHANGED loopVars

\* The draft complete call of createShopifyDraftOrderAndComplete.
DraftOrderComplete ==
  /\ pc = "completeDraft"
  /\ trace' = Append(trace, "shopify.draftOrderComplete")
  /\ \E outcome \in CompleteOutcomes(version), reply \in CompleteReplies :
       LET ph == completePhase(version, outcome, reply) IN
         /\ outcome # "completed" => (reply.order /\ reply.customer)
         /\ outcomes' = [outcomes EXCEPT !.complete = outcome,
                                         !.completeId = outcomes.draftId]
         /\ allGood' = (allGood /\ outcome = "completed")
         /\ result' = IF ph.next = "return" THEN <<ph.result>> ELSE <<>>
         /\ AfterOrderWrite(ph.next, ph.result)
  /\ UNCHANGED <<version, env, req, verified, event, invoice, loc, payload, sent,
                 backendDrafts, createCalls, deliveries, story, cutAfterCreate, unitCall, parked>>
  /\ UNCHANGED loopVars

\* Variant: the lookup is awaited outside the try block, a rejected fetch
\* leaves the handler.
LookupByOrderUncaught ==
  /\ pc = "lookupByOrder"
  /\ trace' = Append(trace, "shopify.orders.get")
  /\ \E outcome \in {"found", "none", "network_error"} :
       /\ outcomes' = [outcomes EXCEPT !.lookupOrder = outcome]
       /\ CASE outcome = "found" -> Goto("createSubscription")
            [] outcome = "none" -> Goto("lookupByEmail")
            [] outcome = "network_error" -> Throw
  /\ UNCHANGED <<version, env, req, verified, event, invoice, loc, payload, sent,
                 result, backendDrafts, createCalls, deliveries, story, cutAfterCreate, unitCall, parked, allGood>>
  /\ UNCHANGED loopVars

\* await getShopifyCustomerIdFromOrder(shopUrl, shopToken, shopifyOrderId)
LookupByOrder ==
  /\ pc = "lookupByOrder"
  /\ trace' = Append(trace, "shopify.orders.get")
  /\ \E outcome \in {"found", "none", "network_error"} :
       /\ outcomes' = [outcomes EXCEPT !.lookupOrder = outcome]
       /\ CASE outcome = "found" -> Goto("createSubscription")
            [] outcome = "none" -> Goto("lookupByEmail")
            [] outcome = "network_error" -> Respond(200, "")
  /\ UNCHANGED <<version, env, req, verified, event, invoice, loc, payload, sent,
                 result, backendDrafts, createCalls, deliveries, story, cutAfterCreate, unitCall, parked, allGood>>
  /\ UNCHANGED loopVars

\* await getShopifyCustomerIdByEmail(shopUrl, shopToken, email)
LookupByEmail ==
  /\ pc = "lookupByEmail"
  /\ trace' = Append(trace, "shopify.customers.search")
  /\ \E outcome \in {"found", "none", "network_error"} :
       /\ outcomes' = [outcomes EXCEPT !.lookupEmail = outcome]
       /\ CASE outcome = "found" -> Goto("createSubscription")
            [] outcome = "none" -> Respond(200, "")
            [] outcome = "network_error" -> Respond(200, "")
  /\ UNCHANGED <<version, env, req, verified, event, invoice, loc, payload, sent,
                 result, backendDrafts, createCalls, deliveries, story, cutAfterCreate, unitCall, parked, allGood>>
  /\ UNCHANGED loopVars

\* Variant: the id of the email search is taken whenever the order write
\* returned none.
resolvedCustomerIdEmailOnly(res, outs) ==
  IF res.customerId # <<>> THEN res.customerId
  ELSE CustomerIdByEmail

\* const customerId = shopifyCustomerId || (await ...FromOrder) || (await ...ByEmail)
resolvedCustomerId(res, outs) ==
  IF res.customerId # <<>> THEN res.customerId
  ELSE IF outs.lookupOrder = "found" THEN CustomerIdFromOrder
  ELSE IF outs.lookupEmail = "found" THEN CustomerIdByEmail
  ELSE <<>>

\* A string the handler passes on as a whole.
StringArg(s) == IF s = "" THEN JsString(<<>>) ELSE JsString(<<s>>)

\* The adapter settings the handler is run with.
HandlerLoopConfigs ==
  {cfg \in LoopConfigs : /\ cfg.revision = "cents"
                         /\ cfg.LOOP_SELLING_PLAN_ID = <<"7">>
                         /\ cfg.LOOP_VARIANT_ID = <<"8">>
                         /\ cfg.LOOP_DELIVERY_PRICE = <<>>}

\* await loop.createSubscription(email, plan, customerId, shopifyOrderId): the
\* value it returns is dropped and the handler acknowledges.
CreateSubscription ==
  /\ pc = "createSubscription"
  /\ trace' = Append(trace, "loop.createSubscription")
  /\ \E cfg \in HandlerLoopConfigs :
       LET email == StringArg(loc.email)
           customerId == JsString(resolvedCustomerId(result[1], outcomes))
           shopifyOrderId == JsString(result[1].orderId)
       IN /\ loopCall' = [fn |-> "createSubscription", email |-> email,
                          shopifyCustomerId |-> customerId,
                          originOrderShopifyId |-> shopifyOrderId, ids |-> <<>>,
                          cfg |-> cfg]
          /\ \E run \in createSubscriptionRuns(isEnabled(env), cfg, email, customerId,
                                               shopifyOrderId) :
               loopResult' = <<run.result>> /\ loopCalls' = run.calls
  /\ Respond(200, "")
  /\ UNCHANGED <<outcomes, version, env, req, verified, event, invoice, loc, payload, sent,
                 result, backendDrafts, createCalls, deliveries, story, cutAfterCreate, unitCall, parked, allGood>>

CustomerEmail == "c@example.com"

\* await stripe.customers.retrieve(customerId) of the cancellation branch;
\* email = customer.deleted ? null : customer.email.
RetrieveCustomer ==
  /\ pc = "retrieveCustomer"
  /\ trace' = Append(trace, "stripe.customers.retrieve")
  /\ \E outcome \in {"email", "no_email", "deleted", "error"} :
       /\ outcomes' = [outcomes EXCEPT !.customer = outcome]
       /\ IF outcome = "email"
            THEN Goto("cancelSubscription") /\ loc' = [loc EXCEPT !.email = CustomerEmail]
            ELSE Respond(200, "") /\ UNCHANGED loc
  /\ UNCHANGED <<version, env, req, verified, event, invoice, payload, sent,
                 result, backendDrafts, createCalls, deliveries, story, cutAfterCreate, unitCall, parked, allGood>>
  /\ UNCHANGED loopVars

\* Variant: the cancellation is acknowledged without calling the adapter.
CancelSubscriptionSkipped ==
  /\ pc = "cancelSubscription"
  /\ Respond(200, "")
  /\ UNCHANGED <<outcomes, version, env, req, verified, event, invoice, loc, payload, sent,
                 result, trace, backendDrafts, createCalls, deliveries, story, cutAfterCreate, unitCall, parked, allGood>>
  /\ UNCHANGED loopVars

\* await loop.cancelSubscription(email): the value it returns is dropped.
CancelSubscription ==
  /\ pc = "cancelSubscription"
  /\ trace' = Append(trace, "loop.cancelSubscription")
  /\ \E cfg \in HandlerLoopConfigs :
       LET email == StringArg(loc.email)
       IN \E run \in cancelSubscriptionRuns(isEnabled(env), cfg, email) :
            /\ loopCall' = [NoLoopCall EXCEPT !.fn = "cancelSubscription",
                                              !.email = email, !.cfg = cfg,
                                              !.ids = run.ids]
            /\ loopResult' = <<run.result>>
            /\ loopCalls' = run.calls
  /\ Respond(200, "")
  /\ UNCHANGED <<outcomes, version, env, req, verified, event, invoice, loc, payload, sent,
                 result, backendDrafts, createCalls, deliveries, story, cutAfterCreate, unitCall, parked, allGood>>

Next ==
  \/ \E r \in Requests : Receive(r)
  \/ Entry
  \/ ReadBody
  \/ VerifySignature
  \/ Classify
  \/ RetrieveSession
  \/ RetrieveInvoice
  \/ RetrieveSubscription
  \/ DraftOrderCreate
  \/ DraftOrderComplete
  \/ LookupByOrder
  \/ LookupByEmail
  \/ CreateSubscription
  \/ RetrieveCustomer
  \/ CancelSubscription

Spec == Init /\ [][Next]_vars

TypeOK ==
  /\ version \in Versions
  /\ env \in Environments
  /\ resp.status \in {0, 200, 400, 405, 500}
  /\ backendDrafts <= createCalls
  /\ createCalls <= deliveries

(***************************************************************************)
(* The sync adapter called on its own: every argument combination, every   *)
(* setting of the feature flag.  One step per await of lib/loop.js.        *)
(***************************************************************************)
SyncFlags == {Undefined, "", "true", "1", "false", "0", "TRUE"}

EmailArgs ==
  {JsUndefined, JsNumber(<<"5">>), JsString(<<>>), JsString(<<" ", " ">>),
   JsString(<<" ", "a", "@", "b", " ">>)}

CustomerIdArgs ==
  {JsUndefined, JsString(<<>>), JsString(<<"7", "1">>), JsString(<<"g", "i", "d">>),
   JsNumber(<<"7", "1">>)}

OrderIdArgs == {JsUndefined, JsString(<<"9", "1">>), JsString(<<"g", "i", "d">>)}

LoopInit ==
  /\ version = "graphql"
  /\ env \in [STRIPE_SECRET_KEY : {"sk_live"},
              STRIPE_WEBHOOK_SECRET : {"whsec"},
              SHOPIFY_SHOP_DOMAIN : {"shop.myshopify.com"},
              SHOPIFY_ACCESS_TOKEN : {"shpat"},
              SHOPIFY_VARIANT_YEARLY : {<<>>},
              SHOPIFY_VARIANT_MONTHLY : {<<>>},
              LOOP_SYNC_ENABLED : SyncFlags]
  /\ pc = "loop_idle"
  /\ req = NoRequest
  /\ verified = FALSE
  /\ event = NoEvent
  /\ invoice = NoInvoice
  /\ loc = NoLocals
  /\ payload = NoPayload
  /\ sent = <<>>
  /\ result = <<>>
  /\ resp = NoResponse
  /\ threw = FALSE
  /\ trace = <<>>
  /\ backendDrafts = 0
  /\ createCalls = 0
  /\ deliveries = 0
  /\ story = <<>>
  /\ cutAfterCreate = 0
  /\ unitCall = NoUnitCall
  /\ parked = IdleContext
  /\ allGood = TRUE
  /\ all200 = TRUE
  /\ outcomes = NoOutcomes
  /\ loopCall = NoLoopCall
  /\ loopResult = <<>>
  /\ loopCalls = <<>>

handlerVars ==
  <<version, env, req, verified, event, invoice, loc, payload, sent, result, resp,
    threw, trace, backendDrafts, createCalls, deliveries, story, cutAfterCreate, unitCall, parked, allGood, all200, outcomes>>

\* A direct call of createSubscription.
CallCreateSubscription ==
  /\ pc = "loop_idle"
  /\ \E email \in EmailArgs, shopifyCustomerId \in CustomerIdArgs,
        originOrderShopifyId \in OrderIdArgs, cfg \in LoopConfigs :
       /\ loopCall' = [fn |-> "createSubscription", email |-> email,
                       shopifyCustomerId |-> shopifyCustomerId,
                       originOrderShopifyId |-> originOrderShopifyId, ids |-> <<>>,
                       cfg |-> cfg]
       /\ \E run \in createSubscriptionRuns(isEnabled(env), cfg, email, shopifyCustomerId,
                                             originOrderShopifyId) :
            loopResult' = <<run.result>> /\ loopCalls' = run.calls
  /\ pc' = "loop_returned"
  /\ UNCHANGED handlerVars

\* A direct call of cancelSubscription.
CallCancelSubscription ==
  /\ pc = "loop_idle"
  /\ \E email \in EmailArgs, cfg \in LoopConfigs :
       \E run \in cancelSubscriptionRuns(isEnabled(env), cfg, email) :
         /\ loopCall' = [NoLoopCall EXCEPT !.fn = "cancelSubscription", !.email = email,
                                           !.cfg = cfg, !.ids = run.ids]
         /\ loopResult' = <<run.result>>
         /\ loopCalls' = run.calls
  /\ pc' = "loop_returned"
  /\ UNCHANGED handlerVars

LoopNext ==
  \/ CallCreateSubscription
  \/ CallCancelSubscription

LoopSpec == LoopInit /\ [][LoopNext]_vars

(***************************************************************************)
(* The handler fed with the events of one subscription bought with a       *)
(* trial, each delivered once and verified, in a configured deployment.    *)
(***************************************************************************)
TrialEventType(kind) ==
  IF kind = "trial_checkout" THEN CheckoutCompleted ELSE InvoicePaid

TrialRequest(kind) ==
  [method |-> "POST", bodyOk |-> TRUE, sig |-> SignatureOf("whsec"),
   type |-> TrialEventType(kind)]

TrialInit ==
  /\ Init
  /\ StripeConfigured(env)
  /\ ShopConfigured(env)

\* The checkout event and the first invoice arrive in either order, the
\* renewal invoice after both.
ReceiveTrialEvent(kind) ==
  /\ \A i \in DOMAIN story : story[i] # kind
  /\ kind = "cycle_invoice" =>
       (\E i \in DOMAIN story : story[i] = "trial_checkout")
       /\ (\E i \in DOMAIN story : story[i] = "trial_invoice")
  /\ Arrive(TrialRequest(kind))
  /\ story' = Append(story, kind)
  /\ UNCHANGED <<allGood, cutAfterCreate, unitCall, parked>>

TrialNext ==
  \/ \E kind \in TrialEvents : ReceiveTrialEvent(kind)
  \/ Entry
  \/ ReadBody
  \/ VerifySignature
  \/ Classify
  \/ RetrieveSession
  \/ RetrieveInvoice
  \/ RetrieveSubscription
  \/ DraftOrderCreate
  \/ DraftOrderComplete
  \/ LookupByOrder
  \/ LookupByEmail
  \/ CreateSubscription

TrialSpec == TrialInit /\ [][TrialNext]_vars

(***************************************************************************)
(* The handler under the platform's invocation timeout: the checkout event *)
(* of a subscription is delivered, the invocation may be cut off at any    *)
(* await, and the processor delivers the event again.                      *)
(***************************************************************************)
AwaitPoints ==
  {"readBody", "retrieveSession", "retrieveInvoice", "retrieveSubscription",
   "createDraft", "completeDraft", "lookupByOrder", "lookupByEmail",
   "createSubscription", "retrieveCustomer", "cancelSubscription"}

\* Variant: the draft of an invocation that is cut off is removed again.
TimeoutUndo ==
  /\ pc \in AwaitPoints
  /\ pc' = "done"
  /\ all200' = FALSE
  /\ cutAfterCreate' = cutAfterCreate + (IF outcomes.create = "accepted" THEN 1 ELSE 0)
  /\ backendDrafts' = backendDrafts - (IF outcomes.create = "accepted" THEN 1 ELSE 0)
  /\ UNCHANGED <<version, env, req, verified, event, invoice, loc, payload, sent, result,
                 resp, threw, trace, createCalls, deliveries, story, allGood,
                 outcomes, unitCall, parked>>
  /\ UNCHANGED loopVars

\* The platform ends the invocation while it waits at an await: no later
\* statement of the handler runs, no response is sent.  The handler has no
\* statement that deletes a draft order.
Timeout ==
  /\ pc \in AwaitPoints
  /\ pc' = "done"
  /\ all200' = FALSE
  /\ cutAfterCreate' = cutAfterCreate + (IF outcomes.create = "accepted" THEN 1 ELSE 0)
  /\ UNCHANGED <<version, env, req, verified, event, invoice, loc, payload, sent, result,
                 resp, threw, trace, backendDrafts, createCalls, deliveries, story,
                 allGood, outcomes, unitCall, parked>>
  /\ UNCHANGED loopVars

\* The checkout event is delivered, for the first time or again.
DeliverCheckout ==
  /\ deliveries < MaxDeliveries
  /\ Arrive(TrialRequest("trial_checkout"))
  /\ story' = Append(story, "trial_checkout")
  /\ UNCHANGED <<allGood, cutAfterCreate, unitCall, parked>>

TimeoutNext ==
  \/ DeliverCheckout
  \/ Entry
  \/ ReadBody
  \/ VerifySignature
  \/ Classify
  \/ RetrieveSession
  \/ DraftOrderCreate
  \/ DraftOrderComplete
  \/ LookupByOrder
  \/ LookupByEmail
  \/ CreateSubscription
  \/ Timeout

TimeoutSpec == TrialInit /\ [][TimeoutNext]_vars

(***************************************************************************)
(* Two invocations of the handler in flight at once: the checkout event of *)
(* a subscription is delivered to each (the event and a redelivery, or two *)
(* purchases), and the runtime interleaves them at their awaits.           *)
(***************************************************************************)
RunningContext ==
  [pc |-> pc, req |-> req, verified |-> verified, event |-> event,
   invoice |-> invoice, loc |-> loc, payload |-> payload, sent |-> sent,
   result |-> result, resp |-> resp, threw |-> threw, trace |-> trace,
   outcomes |-> outcomes, loopCall |-> loopCall, loopResult |-> loopResult,
   loopCalls |-> loopCalls]

\* Variant: the order write result is kept in a variable of the module, which
\* the two invocations share.
SwitchSharingResult ==
  /\ pc \in AwaitPoints \cup {"idle", "done"}
  /\ parked.pc # "done"
  /\ parked' = RunningContext
  /\ pc' = parked.pc /\ req' = parked.req /\ verified' = parked.verified
  /\ event' = parked.event /\ invoice' = parked.invoice /\ loc' = parked.loc
  /\ payload' = parked.payload /\ sent' = parked.sent /\ result' = result
  /\ resp' = parked.resp /\ threw' = parked.threw /\ trace' = parked.trace
  /\ outcomes' = parked.outcomes /\ loopCall' = parked.loopCall
  /\ loopResult' = parked.loopResult /\ loopCalls' = parked.loopCalls
  /\ UNCHANGED <<version, env, backendDrafts, createCalls, deliveries, story,
                 cutAfterCreate, unitCall, allGood, all200>>

\* The running invocation waits at an await (or has not started, or has
\* returned) and the runtime goes on with the other one.
Switch ==
  /\ pc \in AwaitPoints \cup {"idle", "done"}
  /\ parked.pc # "done"
  /\ parked' = RunningContext
  /\ pc' = parked.pc /\ req' = parked.req /\ verified' = parked.verified
  /\ event' = parked.event /\ invoice' = parked.invoice /\ loc' = parked.loc
  /\ payload' = parked.payload /\ sent' = parked.sent /\ result' = parked.result
  /\ resp' = parked.resp /\ threw' = parked.threw /\ trace' = parked.trace
  /\ outcomes' = parked.outcomes /\ loopCall' = parked.loopCall
  /\ loopResult' = parked.loopResult /\ loopCalls' = parked.loopCalls
  /\ UNCHANGED <<version, env, backendDrafts, createCalls, deliveries, story,
                 cutAfterCreate, unitCall, allGood, all200>>

\* The checkout event arrives at an invocation of its own.
InvokeCheckout ==
  /\ pc = "idle"
  /\ Arrive(TrialRequest("trial_checkout"))
  /\ story' = <<"concurrent_checkout">>
  /\ UNCHANGED <<allGood, cutAfterCreate, unitCall, parked>>

ConcurrentNext ==
  \/ InvokeCheckout
  \/ Switch
  \/ Entry
  \/ ReadBody
  \/ VerifySignature
  \/ Classify
  \/ RetrieveSession
  \/ DraftOrderCreate
  \/ DraftOrderComplete
  \/ LookupByOrder
  \/ LookupByEmail
  \/ CreateSubscription

ConcurrentSpec == TrialInit /\ [][ConcurrentNext]_vars

(***************************************************************************)
(* Computations of the application run on their own, once per behaviour,   *)
(* on inputs drawn from bounded sets.                                      *)
(***************************************************************************)
webhookVars ==
  <<version, env, pc, req, verified, event, invoice, loc, payload, sent, result,
    resp, threw, trace, backendDrafts, createCalls, deliveries, story, cutAfterCreate,
    parked, allGood, all200, outcomes, loopCall, loopResult, loopCalls>>

\* subscription.metadata.plan, "" when absent.
MetadataPlans == {"", "yearly", "monthly", "lifetime"}

\* subscription.items.data[0].price.id, "" when absent.
PriceIds == {"", STRIPE_PRICE_YEARLY, STRIPE_PRICE_MONTHLY, "price_other"}

\* process.env.STRIPE_PRICE_YEARLY and process.env.STRIPE_PRICE_MONTHLY.
ConfiguredPrices == {Undefined, STRIPE_PRICE_YEARLY, STRIPE_PRICE_MONTHLY}

\* The plan resolution of the invoice.paid branch.
ResolvePlan ==
  /\ unitCall = NoUnitCall
  /\ \E metadataPlan \in MetadataPlans, priceId \in PriceIds,
        priceYearly \in ConfiguredPrices, priceMonthly \in ConfiguredPrices :
       unitCall' = [fn |-> "resolvePlan",
                    args |-> [metadataPlan |-> metadataPlan, priceId |-> priceId,
                              priceYearly |-> priceYearly, priceMonthly |-> priceMonthly],
                    out |-> resolvePlan(metadataPlan, priceId, priceYearly, priceMonthly)]
  /\ UNCHANGED webhookVars

\* session.amount_total and invoice.amount_paid: <<>> when missing.
AmountInputs == {<<>>} \cup {<<a>> : a \in 0..MaxAmount}

\* amountFormatted and the line items built from it, on the checkout branch
\* and, for an invoice that passes the filters, on the invoice.paid branch.
FormatAmount ==
  /\ unitCall = NoUnitCall
  /\ \E kind \in {CheckoutCompleted, InvoicePaid}, amount \in AmountInputs,
        plan \in {"yearly", "monthly"} :
       LET session == [plan |-> plan, amount_total |-> amount, variant_id |-> <<>>,
                       product_id |-> "", customer_email |-> "",
                       customer_details_email |-> "", utm |-> NoUtm]
           inv == [subscription |-> "object", amount_paid |-> amount,
                   billing_reason |-> "subscription_cycle", customer_email |-> ""]
           sub == [plan |-> plan, price_id |-> "", product_id |-> "", variant_id |-> <<>>]
           l == IF kind = CheckoutCompleted THEN CheckoutLocals(version, session)
                ELSE InvoiceLocals(version, inv, sub)
       IN /\ kind = InvoicePaid => ~InvoiceSkipped(inv)
          /\ unitCall' =
               [fn |-> "amountFormatted",
                args |-> [kind |-> kind, amount |-> amount, plan |-> plan],
                out |-> [amountFormatted |-> l.amountFormatted,
                         line_items |->
                           buildLineItems(version, l.plan, l.amountFormatted,
                                          VariantArg(version, kind, l.metadataVariantId),
                                          env.SHOPIFY_VARIANT_YEARLY,
                                          env.SHOPIFY_VARIANT_MONTHLY)]]
  /\ UNCHANGED webhookVars

(***************************************************************************)
(* The session-creation endpoint (api/create-checkout-session.js).  Ids in *)
(* the request body and in the environment are character sequences, <<>>   *)
(* when null, undefined or empty.                                          *)
(***************************************************************************)
METADATA_VALUE_MAX == 500

\* String(x).trim().slice(0, METADATA_VALUE_MAX)
MetadataValue(chars) ==
  LET t == trim(chars)
  IN IF Len(t) > METADATA_VALUE_MAX THEN SubSeq(t, 1, METADATA_VALUE_MAX) ELSE t

\* The metadata object built from the body, with the fallbacks of the
\* environment for product_id and variant_id.
sessionMetadata(body, e, cfg) ==
  LET plan == body.plan
      fallbackProductId == IF plan = "yearly" THEN cfg.productIdYearly
                           ELSE cfg.productIdMonthly
      fallbackVariant == IF plan = "yearly" THEN e.SHOPIFY_VARIANT_YEARLY
                         ELSE e.SHOPIFY_VARIANT_MONTHLY
  IN [plan |-> plan,
      product_id |-> IF trim(body.product_id) # <<>> THEN MetadataValue(body.product_id)
                     ELSE IF trim(fallbackProductId) # <<>>
                       THEN MetadataValue(fallbackProductId)
                     ELSE <<>>,
      variant_id |-> IF trim(body.variant_id) # <<>> THEN MetadataValue(body.variant_id)
                     ELSE IF trim(fallbackVariant) # <<>>
                       THEN MetadataValue(fallbackVariant)
                     ELSE <<>>,
      utm |-> [k \in MetadataKeys |->
                 IF /\ \E i \in DOMAIN utmKeys : utmKeys[i] = k
                    /\ body.utm[k].type = "string"
                    /\ trim(body.utm[k].chars) # <<>>
                   THEN JsString(MetadataValue(body.utm[k].chars))
                   ELSE JsUndefined]]

\* Variant: the subscription metadata carries the ids but not the plan.
subscriptionMetadataNoPlan(metadata) ==
  [plan |-> "", product_id |-> metadata.product_id, variant_id |-> metadata.variant_id]

\* subscription_data.metadata: Object.assign({ plan }, product_id?, variant_id?)
subscriptionMetadata(metadata) ==
  [plan |-> metadata.plan, product_id |-> metadata.product_id,
   variant_id |-> metadata.variant_id]

NoSessionParams ==
  [priceId |-> Undefined, metadata |-> <<>>, subscription_metadata |-> <<>>]

SessionReply(status, calls, params) ==
  [status |-> status, calls |-> calls, created |-> params # NoSessionParams,
   params |-> params]

\* The handler: r = the request, cfg = the price and product ids of the
\* environment, outcome = how the two processor calls end.
createCheckoutSession(r, e, cfg, outcome) ==
  IF r.method = "OPTIONS" THEN SessionReply(200, <<>>, NoSessionParams)
  ELSE IF r.method # "POST" THEN SessionReply(405, <<>>, NoSessionParams)
  ELSE IF ~(Truthy(e.STRIPE_SECRET_KEY) /\ Truthy(cfg.priceYearly) /\ Truthy(cfg.priceMonthly))
    THEN SessionReply(500, <<>>, NoSessionParams)
  ELSE IF ~r.bodyOk THEN SessionReply(400, <<>>, NoSessionParams)
  ELSE IF r.body.plan # "yearly" /\ r.body.plan # "monthly"
    THEN SessionReply(400, <<>>, NoSessionParams)
  ELSE LET metadata == sessionMetadata(r.body, e, cfg)
           priceId == IF r.body.plan = "yearly" THEN cfg.priceYearly ELSE cfg.priceMonthly
       IN IF outcome = "price_error"
            THEN SessionReply(500, <<"stripe.prices.retrieve">>, NoSessionParams)
          ELSE IF outcome = "create_error"
            THEN SessionReply(500, <<"stripe.prices.retrieve", "stripe.sessions.create">>,
                              NoSessionParams)
          ELSE SessionReply(200, <<"stripe.prices.retrieve", "stripe.sessions.create">>,
                            [priceId |-> priceId, metadata |-> metadata,
                             subscription_metadata |-> subscriptionMetadata(metadata)])

NoBody == [plan |-> Undefined, product_id |-> <<>>, variant_id |-> <<>>, utm |-> NoUtm]

\* A request to the session-creation endpoint.
CreateCheckoutSession ==
  /\ unitCall = NoUnitCall
  /\ \E method \in {"OPTIONS", "GET", "POST"}, bodyOk \in BOOLEAN,
        plan \in {Undefined, "yearly", "monthly", "lifetime", "Yearly"},
        product_id \in {<<>>, <<" ", "p", "1">>},
        variant_id \in {<<>>, <<"3", "3", " ">>},
        utm \in UtmMetadatas,
        priceYearly \in ConfiguredPrices, priceMonthly \in ConfiguredPrices,
        productIdYearly \in {<<>>, <<"p", "9">>},
        outcome \in {"ok", "price_error", "create_error"} :
       LET body == [plan |-> plan, product_id |-> product_id, variant_id |-> variant_id,
                    utm |-> utm]
           r == [method |-> method, bodyOk |-> bodyOk, body |-> body]
           cfg == [priceYearly |-> priceYearly, priceMonthly |-> priceMonthly,
                   productIdYearly |-> productIdYearly, productIdMonthly |-> <<>>]
       IN /\ (method # "POST" \/ ~bodyOk) => (body = NoBody /\ outcome = "ok")
          /\ unitCall' = [fn |-> "createCheckoutSession",
                          args |-> [r |-> r, cfg |-> cfg, outcome |-> outcome],
                          out |-> createCheckoutSession(r, env, cfg, outcome)]
  /\ UNCHANGED webhookVars

UnitInit == TrialInit

UnitNext ==
  \/ ResolvePlan
  \/ FormatAmount
  \/ CreateCheckoutSession

UnitSpec == UnitInit /\ [][UnitNext]_vars

(***************************************************************************)
(* Properties.                                                             *)
(***************************************************************************)
Done == pc = "done"

Acked == resp.status = 200 /\ resp.received

\* The signature header of the request really is the signature under the
\* configured signing secret.
GenuineSignature == req.sig = SignatureOf(env.STRIPE_WEBHOOK_SECRET)

NoCallIn(S) == \A i \in DOMAIN trace : trace[i] \notin S

\* C1: a draft-order create call is made only after constructEvent has
\* succeeded for the event of the same request, and that event carries a
\* genuine signature.
C1_CreateOnlyAfterVerification ==
  \A i \in DOMAIN trace :
    trace[i] = "shopify.draftOrderCreate" =>
      /\ verified
      /\ GenuineSignature
      /\ \E j \in 1..(i - 1) : trace[j] = "constructEvent"

C1_Witness == Called("shopify.draftOrderCreate") /\ verified

\* C2 as stated: every POST request whose signature header is missing or
\* does not verify is answered 400 with an error body and makes no outbound call.
C2_BadSignatureRejected ==
  (Done /\ req.method = "POST" /\ ~GenuineSignature) =>
    (resp.status = 400 /\ resp.error # "" /\ ~resp.received /\ NoCallIn(OutboundCalls))

\* C2 amended: the same, for requests handled with the processor API key and
\* the signing secret configured.
C2_BadSignatureRejectedWhenConfigured ==
  (Done /\ req.method = "POST" /\ ~GenuineSignature /\ StripeConfigured(env)) =>
    (resp.status = 400 /\ resp.error # "" /\ ~resp.received /\ NoCallIn(OutboundCalls))

C2_Witness ==
  /\ Done /\ req.method = "POST" /\ req.sig = "v1=forged" /\ req.bodyOk
  /\ req.type = CheckoutCompleted
  /\ StripeConfigured(env)
  /\ resp.status = 400 /\ resp.error = "Invalid signature"

\* C3: when the draft create succeeded and the draft complete failed (HTTP
\* error status or user errors), the request is still answered 200 {received:true}.
C3_CompleteFailureStillAcked ==
  (Done /\ outcomes.create = "accepted"
        /\ outcomes.complete \in {"http_error", "user_errors"}) => Acked

\* The create phase of the order write failed, in the code's own terms: it
\* returned {ok:false} or the call threw.
CreatePhaseFailed ==
  /\ outcomes.create # ""
  /\ LET ph == createPhase(version, outcomes.create)
     IN ph.next = "throw" \/ (ph.next = "return" /\ ~ph.result.ok)

\* A processor call that expands the event failed.
ExpandFailed ==
  "failed" \in {outcomes.session, outcomes.invoice, outcomes.subscription}

\* C4: a verified event is answered 500 exactly when the create phase failed
\* or a processor call expanding the event failed.
C4_Status500Iff ==
  (Done /\ verified) => ((resp.status = 500) <=> (CreatePhaseFailed \/ ExpandFailed))

\* C5: no record of processed events is kept: after n deliveries of the same
\* valid checkout.session.completed event, the backend accepting every call,
\* there are n create calls and n drafts, and every delivery was answered 200.
C5_EveryDeliveryCreatesADraft ==
  (Done /\ allGood) =>
    (backendDrafts = deliveries /\ createCalls = deliveries /\ all200)

C5_Witness == Done /\ allGood /\ deliveries >= 2 /\ backendDrafts = deliveries

C7_OtherBillingReasonSkipped ==
  (Done /\ verified /\ req.type = InvoicePaid /\ outcomes.invoice = "ok"
        /\ invoice.billing_reason \notin billingReasons) =>
    (~Called("shopify.draftOrderCreate") /\ resp.status = 200)

\* The recurring-charge condition of the spec.
Qualifies(inv) ==
  /\ inv.subscription # ""
  /\ ~IsNull(inv.amount_paid) /\ inv.amount_paid[1] > 0
  /\ inv.billing_reason \in billingReasons

\* C8: a verified invoice.paid event leads to a draft create call iff the
\* invoice has a subscription, a positive amount_paid and a billing reason in
\* the set; without subscription or positive amount it is answered 200 with
\* no order.
C8_RecurringChargeIff ==
  (Done /\ verified /\ req.type = InvoicePaid /\ outcomes.invoice = "ok") =>
    /\ Called("shopify.draftOrderCreate") <=> Qualifies(invoice)
    /\ (invoice.subscription = "" \/ IsNull(invoice.amount_paid)
          \/ invoice.amount_paid[1] <= 0)
         => (resp.status = 200 /\ ~Called("shopify.draftOrderCreate"))

\* C9: when amountFormatted is "0.00", every line item sent is a free-text
\* titled line with price "0.00", never a catalog variant reference.
C9_TrialIsFreeText ==
  (sent # <<>> /\ loc.amountFormatted = "0.00") =>
    \A i \in DOMAIN sent :
      sent[i].variantRef = <<>> /\ sent[i].title # "" /\ sent[i].price = "0.00"

\* The catalog variant references available to the request: the metadata
\* variant_id and the variant configured for the plan.
AvailableVariantRefs ==
  ({parseInt(loc.metadataVariantId)}
     \cup {parseInt(IF loc.plan = "yearly" THEN env.SHOPIFY_VARIANT_YEARLY
                    ELSE env.SHOPIFY_VARIANT_MONTHLY)})
  \ {<<>>}

\* C10: for a non-trial charge with a catalog variant reference available,
\* the line sent references that variant with a price override equal to
\* amountFormatted; a free-text line is sent only when none is available.
C10_PaidUsesCatalogVariant ==
  (sent # <<>> /\ loc.amountFormatted # "0.00") =>
    \A i \in DOMAIN sent :
      IF AvailableVariantRefs # {}
        THEN sent[i].variantRef \in AvailableVariantRefs
             /\ sent[i].price = loc.amountFormatted
        ELSE sent[i].variantRef = <<>> /\ sent[i].title # ""

\* The feature flag as the claim words it: neither 'true' nor '1'.
SyncFlagOff == env.LOOP_SYNC_ENABLED \notin {"true", "1"}

LoopReturned == pc = "loop_returned"

\* C11: with the sync flag off, createSubscription and cancelSubscription
\* return {ok:true} for every argument combination and make no network call.
C11_FlagOffIsNoOp ==
  (loopCall.fn # "" /\ SyncFlagOff) =>
    /\ LoopReturned
    /\ loopResult = <<LoopResult(TRUE, "")>>
    /\ loopCalls = <<>>

C11_Witness ==
  /\ LoopReturned /\ env.LOOP_SYNC_ENABLED = "false"
  /\ loopCall.fn = "cancelSubscription" /\ loopCall.email = JsUndefined
  /\ loopResult = <<LoopResult(TRUE, "")>>

\* C12: once the order write has succeeded for a checkout.session.completed
\* event, or the event is a subscription deleted/updated event, the request is
\* answered 200 {received:true} whatever happens in the sync side channel.
C12_SyncNeverChangesResponse ==
  (/\ Done /\ verified
   /\ \/ req.type \in {SubscriptionDeleted, SubscriptionUpdated}
      \/ (req.type = CheckoutCompleted /\ result # <<>> /\ result[1].ok)) => Acked

C12_Witness ==
  /\ Done /\ Acked /\ req.type = CheckoutCompleted
  /\ outcomes.lookupOrder = "network_error"

C12_WitnessAdapterFailed ==
  /\ Done /\ Acked /\ req.type = SubscriptionDeleted
  /\ loopCall.fn = "cancelSubscription" /\ loopResult # <<>> /\ ~loopResult[1].ok

CallCount(c) == Cardinality({i \in DOMAIN trace : trace[i] = c})

\* The deployed revision has the sync adapter wired in (the first revision
\* never requires lib/loop.js) and the flag is on.
SyncEnabled == version # "first" /\ isEnabled(env)

\* C13: a verified customer.subscription.deleted event, sync enabled, whose
\* customer's email resolves from the processor: cancelSubscription is invoked
\* exactly once, with that email, the response is 200 and no call goes to the
\* commerce backend, whatever the shop configuration.  outcomes.customer = ""
\* is a request that never asked the processor for the customer.
C13_DeletedCancelsOnce ==
  (/\ Done /\ verified /\ req.type = SubscriptionDeleted
   /\ SyncEnabled /\ event.customer # "" /\ outcomes.customer \in {"", "email"}) =>
     /\ outcomes.customer = "email"
     /\ CallCount("loop.cancelSubscription") = 1
     /\ loopCall.fn = "cancelSubscription"
     /\ loopCall.email = StringArg(CustomerEmail)
     /\ Acked
     /\ NoCallIn(ShopifyCalls)

C13_Witness ==
  /\ Done /\ verified /\ req.type = SubscriptionDeleted /\ SyncEnabled
  /\ env.SHOPIFY_SHOP_DOMAIN = Undefined
  /\ event.status = "active"
  /\ CallCount("loop.cancelSubscription") = 1 /\ Acked

\* The event is handled as a cancellation: the customer is retrieved from the
\* processor (the first step of the cancellation path).
HandledAsCancellation == Called("stripe.customers.retrieve")

\* C14: with sync enabled, a customer.subscription.deleted event is always
\* handled as a cancellation; a customer.subscription.updated event is
\* handled as one iff its status is canceled, cancelled, unpaid or
\* incomplete_expired, and otherwise makes no processor retrieve and no cancel
\* call and is answered 200.
C14_CancellationClassification ==
  (Done /\ verified /\ SyncEnabled) =>
    /\ (req.type = SubscriptionDeleted /\ event.customer # "") => HandledAsCancellation
    /\ req.type = SubscriptionUpdated =>
         /\ event.customer # "" =>
              (HandledAsCancellation <=>
                 event.status \in {"canceled", "cancelled", "unpaid", "incomplete_expired"})
         /\ event.status \notin {"canceled", "cancelled", "unpaid", "incomplete_expired"} =>
              /\ NoCallIn(StripeCalls)
              /\ ~Called("loop.cancelSubscription")
              /\ Acked

C14_Witness ==
  /\ Done /\ verified /\ SyncEnabled /\ req.type = SubscriptionUpdated
  /\ event.customer # "" /\ event.status = "past_due"
  /\ trace = <<"getRawBody", "constructEvent">> /\ Acked

\* C15: whatever way the create call fails (error status, user errors, no
\* draft id, rejected or unparsable response), createShopifyDraftOrderAndComplete
\* returns a value {ok:false, error}: result is <<>> when no value came back.
C15_CreateFailureIsReturned ==
  (outcomes.create \notin {"", "accepted"}) =>
    (result # <<>> /\ ~result[1].ok /\ result[1].error # "")

\* The title the spec fixes for a plan and a trial flag.
SpecTitle(plan, isTrial) ==
  IF plan = "yearly"
    THEN (IF isTrial THEN "Platinum Membership Yearly - Free Trial"
                     ELSE "Platinum Membership Yearly")
    ELSE (IF isTrial THEN "Platinum Membership Monthly - Free Trial"
                     ELSE "Platinum Membership Monthly (after trial)")

\* C16: with no catalog variant reference available, the order carries
\* exactly one free-text line priced amountFormatted whose title is the one of
\* the four fixed titles selected by plan and trial (yearly, 9999 cents:
\* 'Platinum Membership Yearly' at '99.99').
C16_FreeTextLineTitles ==
  (sent # <<>> /\ AvailableVariantRefs = {}) =>
    /\ Len(sent) = 1
    /\ sent[1].variantRef = <<>>
    /\ sent[1].price = loc.amountFormatted
    /\ sent[1].title = SpecTitle(loc.plan, loc.amountFormatted = "0.00")

HasAttr(attrs, n, v) == \E i \in DOMAIN attrs : attrs[i] = Attr(n, v)

\* C17: a verified invoice.paid event that passes the recurring-charge filter
\* (its subscription being available) makes exactly one draft create call whose
\* note attributes carry order_type = recurring, the invoice id and the
\* subscription id, and is answered 200 when the order write succeeds,
\* whatever else the subscription metadata carries.
C17_RecurringOrderAttributes ==
  (/\ Done /\ verified /\ req.type = InvoicePaid /\ outcomes.invoice = "ok"
   /\ Qualifies(invoice) /\ outcomes.subscription # "failed") =>
     /\ CallCount("shopify.draftOrderCreate") = 1
     /\ HasAttr(payload.note_attributes, "order_type", "recurring")
     /\ HasAttr(payload.note_attributes, "stripe_invoice_id", InvoiceId)
     /\ HasAttr(payload.note_attributes, "stripe_subscription_id", SubscriptionId)
     /\ (result # <<>> /\ result[1].ok) => resp.status = 200

\* The titles by which the three revisions name a plan on a free-text line.
TitlesOfPlan(plan) ==
  CASE plan = "yearly" ->
         {LINE_TITLES.yearly_trial, LINE_TITLES.yearly_paid, "Platinum Membership - Yearly"}
    [] plan = "monthly" ->
         {LINE_TITLES.monthly_trial, LINE_TITLES.monthly_paid, "Platinum Membership - Monthly"}
    [] OTHER -> {}

\* C18: every order sent was built for exactly one plan in {yearly, monthly};
\* the plan is yearly when the session or subscription metadata carries none;
\* the plan note attribute names the plan that selected the line title.
C18_PlanResolution ==
  (sent # <<>>) =>
    /\ loc.plan \in {"yearly", "monthly"}
    /\ loc.metadataPlan = "" => loc.plan = "yearly"
    /\ HasAttr(payload.note_attributes, "plan", loc.plan)
    /\ \A i \in DOMAIN sent : sent[i].title # "" => sent[i].title \in TitlesOfPlan(loc.plan)

AttrNames(attrs) == {attrs[i].name : i \in DOMAIN attrs}

\* C19: in every payload sent the note-attribute names are pairwise distinct;
\* plan is always present, with stripe_session_id for an initial purchase and
\* stripe_invoice_id and stripe_subscription_id for a recurring charge.
C19_NoteAttributeNames ==
  (sent # <<>>) =>
    LET attrs == payload.note_attributes
    IN /\ \A i, j \in DOMAIN attrs : attrs[i].name = attrs[j].name => i = j
       /\ "plan" \in AttrNames(attrs)
       /\ req.type = CheckoutCompleted => "stripe_session_id" \in AttrNames(attrs)
       /\ req.type = InvoicePaid =>
            {"stripe_invoice_id", "stripe_subscription_id"} \subseteq AttrNames(attrs)

C19_Witness ==
  /\ sent # <<>> /\ req.type = CheckoutCompleted
  /\ Len(payload.note_attributes) = 9

\* The text of a string between its first and its last character that is
\* not white space.
TrimmedText(chars) ==
  LET idx == {j \in DOMAIN chars : chars[j] \notin Whitespace}
      first == CHOOSE j \in idx : \A k \in idx : j <= k
      last == CHOOSE j \in idx : \A k \in idx : k <= j
  IN IF idx = {} THEN "" ELSE Join(SubSeq(chars, first, last))

\* C20: for an initial purchase, a note attribute named after a metadata key
\* of the marketing attribution is sent iff the key is one of the six
\* allow-listed ones and the metadata value is a string with a character that
\* is not white space; its value is the trimmed text, never empty.
C20_AttributionAttributes ==
  (sent # <<>> /\ req.type = CheckoutCompleted) =>
    LET attrs == payload.note_attributes
    IN \A k \in MetadataKeys :
         LET val == loc.metadataUtm[k]
         IN /\ (k \in AttrNames(attrs)) <=>
                 /\ k \in {"utm_source", "utm_medium", "utm_campaign", "utm_term",
                            "utm_content", "utm_id"}
                 /\ val.type = "string"
                 /\ \E j \in DOMAIN val.chars : val.chars[j] \notin Whitespace
            /\ \A i \in DOMAIN attrs :
                 attrs[i].name = k =>
                   (attrs[i].value = TrimmedText(val.chars) /\ attrs[i].value # "")

C20_Witness ==
  /\ sent # <<>> /\ req.type = CheckoutCompleted
  /\ loc.metadataUtm["utm_campaign"] = JsString(<<" ", " ">>)
  /\ HasAttr(payload.note_attributes, "utm_source", "g o")
  /\ "utm_campaign" \notin AttrNames(payload.note_attributes)
  /\ "utm_referrer" \notin AttrNames(payload.note_attributes)

\* C21: status 400 is sent only when reading the body failed or the signature
\* did not verify, and then by the step that found it.
C21_BadRequestOnlyForBodyOrSignature ==
  (resp.status = 400) =>
    /\ req.method = "POST"
    /\ \/ (~req.bodyOk /\ resp.error = "Invalid body" /\ trace = <<"getRawBody">>)
       \/ (/\ req.bodyOk /\ ~GenuineSignature /\ resp.error = "Invalid signature"
           /\ trace = <<"getRawBody", "constructEvent">>)

C21_Witness ==
  /\ Done /\ resp.status = 400 /\ ~req.bodyOk /\ req.sig = SignatureOf("whsec")

SyncFlagOn == env.LOOP_SYNC_ENABLED \in {"true", "1"}

\* A value that is no string, or a string of white space only.
BlankEmail(v) ==
  v.type # "string" \/ \A i \in DOMAIN v.chars : v.chars[i] \in Whitespace

MissingArg(v) == v.type = "undefined" \/ (v.type = "string" /\ v.chars = <<>>)

FailedWithoutCall ==
  /\ Len(loopResult) = 1
  /\ ~loopResult[1].ok /\ loopResult[1].error # ""
  /\ loopCalls = <<>>

\* C23: with sync enabled, createSubscription with a missing or blank email or
\* a missing customer id, and cancelSubscription with a missing or blank
\* email, return {ok:false, error} and make no network call; createSubscription
\* makes at most one call, the POST, and only when every one of its
\* validations has passed.
C23_ValidationBeforeNetwork ==
  (LoopReturned /\ SyncFlagOn) =>
    /\ (loopCall.fn = "createSubscription"
        /\ (BlankEmail(loopCall.email) \/ MissingArg(loopCall.shopifyCustomerId)))
         => FailedWithoutCall
    /\ (loopCall.fn = "cancelSubscription" /\ BlankEmail(loopCall.email))
         => FailedWithoutCall
    /\ loopCall.fn = "createSubscription" =>
         /\ loopCalls \in {<<>>, <<"POST /subscription">>}
         /\ loopCalls # <<>> =>
              /\ ~BlankEmail(loopCall.email)
              /\ ~MissingArg(loopCall.shopifyCustomerId)
              /\ ~MissingArg(loopCall.originOrderShopifyId)
              /\ loopCall.cfg.LOOP_API_TOKEN # <<>>
              /\ loopCall.cfg.LOOP_SELLING_PLAN_ID # <<>>
              /\ loopCall.cfg.LOOP_VARIANT_ID # <<>>
              /\ ~InvalidDeliveryPrice(loopCall.cfg)
              /\ ~InvalidId(loopCall.cfg, loopCall.shopifyCustomerId,
                            loopCall.originOrderShopifyId)
         /\ loopCalls = <<>> => (Len(loopResult) = 1 /\ ~loopResult[1].ok)

C23_Witness ==
  /\ LoopReturned /\ env.LOOP_SYNC_ENABLED = "true"
  /\ loopCall.fn = "createSubscription"
  /\ loopCall.email = JsString(<<" ", "a", "@", "b", " ">>)
  /\ loopCall.shopifyCustomerId = JsString(<<>>)
  /\ loopCall.cfg.LOOP_API_TOKEN # <<>>
  /\ loopResult = <<LoopResult(FALSE, "No Shopify customer ID")>>
  /\ loopCalls = <<>>

C25_OrderResultWellFormed ==
  result # <<>> =>
    LET r == result[1] IN
      /\ ~r.ok => (r.error # "" /\ r.orderId = <<>> /\ r.customerId = <<>>)
      /\ r.ok => r.error = ""
      /\ r.orderId # <<>> => (outcomes.create = "accepted" /\ outcomes.complete = "completed")

C25_Witness ==
  /\ Done /\ version = "rest" /\ result # <<>>
  /\ result[1].ok /\ result[1].orderId = OrderId
  /\ outcomes.complete = "completed"

\* A verified event that must produce an order, in a configured deployment
\* whose processor answered the retrieve calls.
PurchaseEvent ==
  /\ verified /\ ShopConfigured(env)
  /\ \/ (req.type = CheckoutCompleted /\ outcomes.session = "ok")
     \/ (/\ req.type = InvoicePaid /\ outcomes.invoice = "ok" /\ Qualifies(invoice)
         /\ outcomes.subscription # "failed")

\* C26: for a verified checkout.session.completed event and for a qualifying
\* invoice.paid event exactly one draft create call is made; the complete call
\* is made at most once, only after a create call that succeeded, and for the
\* draft id that call returned; when both succeed the request is answered 200.
C26_TwoPhaseOrderWrite ==
  /\ (Done /\ PurchaseEvent) => CallCount("shopify.draftOrderCreate") = 1
  /\ CallCount("shopify.draftOrderCreate") <= 1
  /\ CallCount("shopify.draftOrderComplete") <= 1
  /\ \A i \in DOMAIN trace :
       trace[i] = "shopify.draftOrderComplete" =>
         /\ \E j \in 1..(i - 1) : trace[j] = "shopify.draftOrderCreate"
         /\ outcomes.create = "accepted"
         /\ outcomes.draftId # 0
         /\ outcomes.completeId = outcomes.draftId
  /\ (Done /\ outcomes.create = "accepted" /\ outcomes.complete = "completed") => Acked

Delivered(kind) == \E i \in DOMAIN story : story[i] = kind

\* The orders the events delivered so far are to produce: the trial order of
\* the checkout event and one order for the renewal invoice.
OrdersDue ==
  (IF Delivered("trial_checkout") THEN 1 ELSE 0)
  + (IF Delivered("cycle_invoice") THEN 1 ELSE 0)

\* C27: for one subscription bought with a trial, the checkout event (amount
\* 0) and the first invoice (subscription_create, amount 0), delivered once
\* each in either order, create one order in total; the later invoice of a
\* renewal with a positive amount adds exactly one.  Read for requests whose
\* processor and backend calls all succeed.
C27_TrialThenRenewalOrders ==
  (Done /\ allGood /\ story # <<>>) =>
    (backendDrafts = OrdersDue /\ createCalls = OrdersDue)

\* C28: a verified checkout.session.completed or invoice.paid event answered
\* with a status outside 2xx has created no draft order: once the create call
\* has succeeded, no later failure turns the response into an error.
C28_NoDraftBehindAnError ==
  (/\ Done /\ verified /\ req.type \in {CheckoutCompleted, InvoicePaid}
   /\ resp.status # 0 /\ resp.status \notin 200..299) =>
    outcomes.create # "accepted"

\* C29: every request that reaches the handler ends with a response sent by
\* the handler, on every path; none ends by an exception leaving the handler
\* with no response sent.  (A response is sent by the step that ends the
\* request, so there is never a second one.)
C29_EveryRequestAnswered ==
  /\ Done => (~threw /\ resp.status \in {200, 400, 405, 500})
  /\ resp.status # 0 => Done

\* Position of a recorded step in the order of the pipeline: read body,
\* verify signature, fetch the full object, create draft, complete draft, sync
\* fan-out.
StepRank(step) ==
  CASE step = "getRawBody" -> 1
    [] step = "constructEvent" -> 2
    [] step \in StripeCalls -> 4
    [] step = "shopify.draftOrderCreate" -> 6
    [] step = "shopify.draftOrderComplete" -> 7
    [] OTHER -> 8

\* The sync fan-out of a checkout event is due: sync on, order written with
\* an order id, email known.
FanOutDue ==
  /\ SyncEnabled /\ req.type = CheckoutCompleted
  /\ result # <<>> /\ result[1].ok /\ result[1].orderId # <<>>
  /\ loc.email # ""

FanOutFinished ==
  \/ Called("loop.createSubscription")
  \/ outcomes.lookupOrder = "network_error"
  \/ outcomes.lookupEmail \in {"none", "network_error"}

StepsInOrder ==
  /\ \A i, j \in DOMAIN trace :
       i < j => /\ StepRank(trace[i]) <= StepRank(trace[j])
                /\ trace[i] # trace[j]
  /\ Len(trace) >= 1 => trace[1] = "getRawBody"
  /\ Len(trace) >= 2 => trace[2] = "constructEvent"
  /\ Len(trace) >= 3 => verified
  /\ pc \in {"classify", "retrieveSession", "retrieveInvoice", "retrieveCustomer"}
       => (verified /\ trace = <<"getRawBody", "constructEvent">>)
  /\ Called("shopify.draftOrderCreate") =>
       /\ payload # NoPayload
       /\ Called("stripe.sessions.retrieve") \/ Called("stripe.invoices.retrieve")
  /\ Called("shopify.draftOrderComplete") => outcomes.create = "accepted"
  /\ (\E i \in DOMAIN trace : StepRank(trace[i]) = 8 /\ req.type = CheckoutCompleted)
       => (result # <<>> /\ result[1].ok)
  /\ (Done /\ Acked /\ FanOutDue) => FanOutFinished

\* A step of the handler, any but the arrival of the next request.
HandlerStep ==
  \/ Entry \/ ReadBody \/ VerifySignature \/ Classify
  \/ RetrieveSession \/ RetrieveInvoice \/ RetrieveSubscription
  \/ DraftOrderCreate \/ DraftOrderComplete
  \/ LookupByOrder \/ LookupByEmail \/ CreateSubscription
  \/ RetrieveCustomer \/ CancelSubscription

\* C30: within one request the steps run in the order read body, verify
\* signature, classify, fetch the full object, build the payload, create
\* draft, complete draft, sync fan-out, respond; the response is the last step
\* (for a purchase event it comes after the fan-out has finished) and no
\* step or outbound call of the request follows it.
C30_StrictlySequential ==
  /\ StepsInOrder
  /\ resp.status # 0 => (Done /\ ~ENABLED HandlerStep)

C30_Witness ==
  /\ Done /\ Acked
  /\ trace = <<"getRawBody", "constructEvent", "stripe.sessions.retrieve",
               "shopify.draftOrderCreate", "shopify.draftOrderComplete",
               "shopify.orders.get", "shopify.customers.search",
               "loop.createSubscription">>

\* The invocation ended with no response and no exception: it was cut off.
TimedOut == Done /\ resp.status = 0 /\ ~threw

\* C31: an invocation cut off after its draft create call succeeded leaves
\* the draft in the backend; the delivery of the event that follows runs the
\* whole pipeline and, its calls succeeding, creates a draft of its own, so
\* that the backend holds one draft more than the cut-off invocations left.
C31_CutOffThenDuplicate ==
  /\ cutAfterCreate <= backendDrafts
  /\ (TimedOut /\ outcomes.create = "accepted") =>
       (outcomes.draftId >= 1 /\ backendDrafts >= outcomes.draftId)
  /\ (Done /\ ~TimedOut /\ allGood) =>
       /\ Acked
       /\ trace[1] = "getRawBody" /\ Called("stripe.sessions.retrieve")
       /\ outcomes.create = "accepted"
       /\ outcomes.draftId = backendDrafts
       /\ backendDrafts >= cutAfterCreate + 1

C31_Witness ==
  /\ Done /\ Acked /\ allGood
  /\ deliveries = 2 /\ cutAfterCreate = 1 /\ backendDrafts = 2

\* Position of the first call c of the request, 0 when it was not made.
FirstCall(c) ==
  IF Called(c) THEN CHOOSE i \in DOMAIN trace :
                      trace[i] = c /\ \A j \in 1..(i - 1) : trace[j] # c
  ELSE 0

\* C32: createSubscription is called at most once per request, only with the
\* sync on, an order write that returned ok and an order id, and a known
\* email; the customer id it gets is the order write's, else the order
\* lookup's, else the email search's, and a lookup is made only when the
\* sources before it gave nothing.
C32_CustomerIdResolutionOrder ==
  /\ CallCount("loop.createSubscription") <= 1
  /\ CallCount("shopify.orders.get") <= 1
  /\ CallCount("shopify.customers.search") <= 1
  /\ Called("shopify.orders.get") =>
       /\ result # <<>> /\ result[1].ok /\ result[1].customerId = <<>>
       /\ FirstCall("shopify.orders.get") > FirstCall("shopify.draftOrderComplete")
  /\ Called("shopify.customers.search") =>
       /\ Called("shopify.orders.get") /\ outcomes.lookupOrder = "none"
       /\ FirstCall("shopify.customers.search") > FirstCall("shopify.orders.get")
  /\ Called("loop.createSubscription") =>
       /\ req.type = CheckoutCompleted
       /\ isEnabled(env)
       /\ result # <<>> /\ result[1].ok /\ result[1].orderId # <<>>
       /\ loc.email # ""
       /\ trace[Len(trace)] = "loop.createSubscription"
       /\ loopCall.originOrderShopifyId = JsString(result[1].orderId)
       /\ loopCall.shopifyCustomerId.chars # <<>>
       /\ IF result[1].customerId # <<>>
            THEN /\ loopCall.shopifyCustomerId = JsString(result[1].customerId)
                 /\ ~Called("shopify.orders.get")
                 /\ ~Called("shopify.customers.search")
            ELSE IF outcomes.lookupOrder = "found"
            THEN /\ loopCall.shopifyCustomerId = JsString(CustomerIdFromOrder)
                 /\ Called("shopify.orders.get")
                 /\ ~Called("shopify.customers.search")
            ELSE /\ loopCall.shopifyCustomerId = JsString(CustomerIdByEmail)
                 /\ outcomes.lookupOrder = "none" /\ outcomes.lookupEmail = "found"

C32_Witness ==
  /\ Done /\ Called("loop.createSubscription")
  /\ result[1].customerId = <<>>
  /\ outcomes.lookupOrder = "found"
  /\ loopCall.shopifyCustomerId = JsString(CustomerIdFromOrder)

\* C33: a request for an invoice.paid event, whatever its content and the
\* sync setting, makes no createSubscription call and no customer id lookup;
\* createSubscription is called only for a checkout event, cancelSubscription
\* only for a subscription deleted or updated event.
C33_RecurringChargeNeverSyncs ==
  /\ req.type = InvoicePaid =>
       /\ ~Called("loop.createSubscription")
       /\ ~Called("loop.cancelSubscription")
       /\ ~Called("shopify.orders.get")
       /\ ~Called("shopify.customers.search")
       /\ pc \notin {"lookupByOrder", "lookupByEmail", "createSubscription",
                      "cancelSubscription"}
       /\ loopCall = NoLoopCall /\ loopCalls = <<>>
  /\ (Called("loop.createSubscription") \/ loopCall.fn = "createSubscription") =>
       req.type = CheckoutCompleted
  /\ (Called("loop.cancelSubscription") \/ loopCall.fn = "cancelSubscription") =>
       req.type \in {SubscriptionDeleted, SubscriptionUpdated}

C33_Witness ==
  /\ Done /\ Acked /\ req.type = InvoicePaid
  /\ version # "first" /\ isEnabled(env)
  /\ Called("shopify.draftOrderComplete")
  /\ result # <<>> /\ result[1].ok /\ result[1].orderId # <<>>
  /\ loc.email # ""

\* C34: a verified checkout or invoice.paid event, when the shop domain or
\* the access token is not configured, is answered 200 {received:true} with
\* no retrieve from the processor and no call to the commerce backend.
C34_UnconfiguredShopAcked ==
  (/\ Done /\ verified
   /\ req.type \in {CheckoutCompleted, InvoicePaid}
   /\ ~ShopConfigured(env)) =>
    (Acked /\ NoCallIn(StripeCalls) /\ NoCallIn(ShopifyCalls))

\* The same with the shop domain set, to the empty string at least.
C34_DomainDefined ==
  env.SHOPIFY_SHOP_DOMAIN # Undefined => C34_UnconfiguredShopAcked

\* C35 as stated: the metadata plan if present; else, with a price id on
\* the first item, monthly when the id equals the configured monthly price id
\* and yearly otherwise; else yearly; never empty.
C35_MonthlyWheneverMonthlyPrice ==
  unitCall.fn = "resolvePlan" =>
    LET a == unitCall.args IN
      /\ unitCall.out # ""
      /\ unitCall.out =
           (IF a.metadataPlan # "" THEN a.metadataPlan
            ELSE IF a.priceId # ""
              THEN (IF a.priceId = a.priceMonthly THEN "monthly" ELSE "yearly")
            ELSE "yearly")

\* C35 (amended): the metadata plan if present; else, with a price id on the
\* first item, yearly when the id equals the configured yearly price id,
\* otherwise monthly when it equals the configured monthly price id, otherwise
\* yearly; else yearly; never empty.
C35_PlanPrecedence ==
  unitCall.fn = "resolvePlan" =>
    LET a == unitCall.args IN
      /\ unitCall.out # ""
      /\ unitCall.out =
           (IF a.metadataPlan # "" THEN a.metadataPlan
            ELSE IF a.priceId # ""
              THEN (IF a.priceId = a.priceYearly THEN "yearly"
                    ELSE IF a.priceId = a.priceMonthly THEN "monthly"
                    ELSE "yearly")
            ELSE "yearly")

C35_Witness ==
  /\ unitCall.fn = "resolvePlan"
  /\ unitCall.args.metadataPlan = ""
  /\ unitCall.args.priceId = STRIPE_PRICE_MONTHLY
  /\ unitCall.args.priceMonthly = STRIPE_PRICE_MONTHLY
  /\ unitCall.args.priceYearly = STRIPE_PRICE_YEARLY
  /\ unitCall.out = "monthly"

C38_MissingAmountWitness ==
  /\ unitCall.fn = "amountFormatted"
  /\ unitCall.args.kind = CheckoutCompleted /\ unitCall.args.amount = <<>>
  /\ unitCall.out.amountFormatted = "0.00"

\* The session the processor returns to the webhook for a session created
\* with these parameters, and its subscription: the metadata is echoed back.
EchoedSession(params, amount) ==
  [plan |-> params.metadata.plan, amount_total |-> amount,
   variant_id |-> params.metadata.variant_id,
   product_id |-> Join(params.metadata.product_id),
   customer_email |-> "a@example.com", customer_details_email |-> "",
   utm |-> params.metadata.utm]

EchoedSubscription(params, priceId) ==
  [plan |-> params.subscription_metadata.plan, price_id |-> priceId,
   product_id |-> Join(params.subscription_metadata.product_id),
   variant_id |-> params.subscription_metadata.variant_id]

\* C36: the session-creation endpoint creates a session only for the plans
\* yearly and monthly, any other plan being answered 400 with no processor
\* call; the plan is attached to the session metadata and to the subscription
\* metadata, so that the webhook records that plan on the order of the
\* checkout and on the order of every recurring charge it writes.
C36_PlanEndToEnd ==
  unitCall.fn = "createCheckoutSession" =>
    LET r == unitCall.args.r
        out == unitCall.out
        plan == r.body.plan
    IN /\ (out.created \/ out.calls # <<>>) => plan \in {"yearly", "monthly"}
       /\ (/\ r.method = "POST" /\ r.bodyOk
           /\ Truthy(unitCall.args.cfg.priceYearly) /\ Truthy(unitCall.args.cfg.priceMonthly)
           /\ plan \notin {"yearly", "monthly"}) =>
            (out.status = 400 /\ out.calls = <<>> /\ ~out.created)
       /\ out.created =>
            /\ out.status = 200
            /\ out.params.metadata.plan = plan
            /\ out.params.subscription_metadata.plan = plan
            /\ \A amount \in {<<>>, <<0>>, <<9999>>} :
                 LET session == EchoedSession(out.params, amount)
                 IN /\ CheckoutLocals(version, session).plan = plan
                    /\ HasAttr(CheckoutPayload(version, env, session).note_attributes,
                               "plan", plan)
            /\ \A priceId \in PriceIds, inv \in CycleInvoices \cup TrialInvoices :
                 LET sub == EchoedSubscription(out.params, priceId)
                 IN /\ InvoicePlan(sub) = plan
                    /\ HasAttr(InvoicePayload(version, env, inv, sub).note_attributes,
                               "plan", plan)

C36_Witness ==
  /\ unitCall.fn = "createCheckoutSession"
  /\ unitCall.out.created
  /\ unitCall.args.r.body.plan = "monthly"
  /\ unitCall.out.params.subscription_metadata.plan = "monthly"
  /\ unitCall.out.params.metadata.variant_id = <<"3", "3">>

\* An invalid plan is refused.
C36_RefusedWitness ==
  /\ unitCall.fn = "createCheckoutSession"
  /\ unitCall.args.r.body.plan = "lifetime"
  /\ unitCall.out.status = 400 /\ unitCall.out.calls = <<>>

\* The sync calls an invocation handling a checkout event makes alone after
\* its order write returned, given how its own lookups ended.
SoloFanOut(c) ==
  LET res == c.result[1]
  IN IF /\ version # "first" /\ isEnabled(env)
        /\ res.ok /\ c.loc.email # "" /\ res.orderId # <<>>
       THEN IF res.customerId # <<>> THEN <<"loop.createSubscription">>
            ELSE <<"shopify.orders.get">> \o
                 (CASE c.outcomes.lookupOrder = "found" -> <<"loop.createSubscription">>
                    [] c.outcomes.lookupOrder = "none" ->
                         <<"shopify.customers.search">> \o
                         (IF c.outcomes.lookupEmail = "found"
                            THEN <<"loop.createSubscription">> ELSE <<>>)
                    [] OTHER -> <<>>)
     ELSE <<>>

\* The calls it makes alone from the first to the last, given how its own
\* calls ended.
SoloCalls(c) ==
  <<"getRawBody", "constructEvent", "stripe.sessions.retrieve">> \o
  (IF c.outcomes.session # "ok" THEN <<>>
   ELSE <<"shopify.draftOrderCreate">> \o
        (IF createPhase(version, c.outcomes.create).next # "complete" THEN <<>>
         ELSE <<"shopify.draftOrderComplete">> \o
              (IF c.result # <<>> THEN SoloFanOut(c) ELSE <<>>)))

\* The status it answers alone.
SoloStatus(c) ==
  LET cp == createPhase(version, c.outcomes.create)
  IN IF c.outcomes.session # "ok" THEN 500
     ELSE IF cp.next = "throw" THEN 500
     ELSE IF cp.next = "return" THEN (IF cp.result.ok THEN 200 ELSE 500)
     ELSE IF c.result = <<>> THEN 500
     ELSE IF c.result[1].ok THEN 200 ELSE 500

\* The order write result it holds is the one of its own calls.
OwnResult(c) ==
  LET cp == createPhase(version, c.outcomes.create)
  IN IF c.outcomes.complete # ""
       THEN \E reply \in CompleteReplies :
              LET ph == completePhase(version, c.outcomes.complete, reply)
              IN c.result = IF ph.next = "return" THEN <<ph.result>> ELSE <<>>
     ELSE IF c.outcomes.create # "" /\ cp.next = "return" THEN c.result = <<cp.result>>
     ELSE c.result = <<>>

AsIfAlone(c) ==
  /\ OwnResult(c)
  /\ c.pc = "done" =>
       /\ ~c.threw
       /\ c.trace = SoloCalls(c)
       /\ c.resp.status = SoloStatus(c)
       /\ c.resp.received = (c.resp.status = 200)

DraftsOf(c) == IF c.outcomes.create = "accepted" THEN 1 ELSE 0

CreateCallsOf(c) ==
  Cardinality({i \in DOMAIN c.trace : c.trace[i] = "shopify.draftOrderCreate"})

\* C37: with two invocations in flight, interleaved in any way at their
\* awaits, each answers and makes the outbound calls, in the order, that it
\* would alone given how its own calls ended, and the drafts in the backend
\* are the drafts of the one plus the drafts of the other.
C37_InvocationsIndependent ==
  /\ AsIfAlone(RunningContext)
  /\ AsIfAlone(parked)
  /\ backendDrafts = DraftsOf(RunningContext) + DraftsOf(parked)
  /\ createCalls = CreateCallsOf(RunningContext) + CreateCallsOf(parked)

\* The other invocation wrote its draft first and still waits for its
\* complete call; this one wrote the second draft and has answered.
C37_Witness ==
  /\ Done /\ Acked /\ outcomes.draftId = 2
  /\ parked.pc = "completeDraft" /\ parked.outcomes.draftId = 1
  /\ backendDrafts = 2

\* An invocation handling a checkout event with no other in flight.
C37_AloneInTrialSpec ==
  (req.type = CheckoutCompleted /\ parked = IdleContext) => AsIfAlone(RunningContext)

====
